---- MODULE Spec2Model ----
(***************************************************************************)
(* The in-memory key-value store of n8n-nodes-memory-state                 *)
(* (src/src/MemoryStore.ts) and the node that drives it                    *)
(* (src/nodes/MemoryState/MemoryState.node.ts).                            *)
(*                                                                         *)
(* JavaScript objects live on a heap of cells, so that two references to   *)
(* one object are told apart from two objects of equal content.  Every    *)
(* Store operation is an async method: the caller's part runs up to the   *)
(* await of mutex.runExclusive, the callback runs later, once the mutex   *)
(* has been acquired, and the mutex is released after it.                 *)
(***************************************************************************)
EXTENDS Integers, Sequences, FiniteSets, TLC

VARIABLES
    store,      \* MemoryStore.store: the Map, as its entries in insertion order
    mutex,      \* MemoryStore.mutex: TRUE while the Mutex is locked
    queue,      \* MemoryStore.mutex: the callers that wait for it, in the
                \* order of their calls
    heap,       \* the JavaScript heap: a sequence of object cells
    pc,         \* per caller: where its current Store call stands
    op,         \* per caller: the Store call it has in flight
    ret,        \* per caller: what its last Store call settled with
    val,        \* per caller: its variable `value', the object it passed to set
    nops,       \* how many Store calls have been issued
    passed,     \* history: per caller, the properties its value had when it
                \* called set, while that call is in flight
    written,    \* history: per key, the content the last set callback on it was
                \* given and by whom, and how many sets ran since it was absent
    apc,        \* per caller: where its run of the node's execute stands
    idx,        \* per caller: execute's loop variable i
    cur,        \* per caller: the locals of the item execute is working on
    returnData, \* per caller: execute's returnData
    error,      \* per caller: the error execute threw
    started,    \* how many items have been begun
    engine,     \* the JavaScript engine the node runs on
    seen,       \* history: per caller, its last getWithDefault item
    listed      \* history: what the last keys callback was asked and returned,
                \* while no set, delete or clear callback has run since

vars == <<store, mutex, queue, heap, pc, op, ret, val, nops, passed, written,
          apc, idx, cur, returnData, error, started, engine, seen, listed>>

(* The state of the node's executions. *)
adapterVars == <<apc, idx, cur, returnData, error, started>>

(* What the Store's own steps leave alone. *)
callerVars == <<val, nops, adapterVars, engine>>

----------------------------------------------------------------------------
(* Bounds of the model. *)

NumCallers == 2     \* concurrent callers of the Store
MaxOps == 2         \* Store calls issued in one behaviour
MaxItems == 2       \* input items the node's executions begin in one behaviour

Callers == 1..NumCallers

(* Key strings are sequences of characters. *)
KeyA == <<"a">>
KeyB == <<"A", "b">>
StoreKeys == {KeyA, KeyB}

(* The engines the node runs on differ in the messages of JSON.parse: the  *)
(* one of Node.js 20 and the one of Node.js 22.                            *)
Engines == {"V8 11.3", "V8 12.4"}

----------------------------------------------------------------------------
(* JavaScript values.  An object is a reference to a heap cell; a number,  *)
(* a string and an array are what they hold, the items of an array being   *)
(* values themselves.                                                      *)

Null == [t |-> "null"]
Undefined == [t |-> "undefined"]
Obj(a) == [t |-> "object", ref |-> a]
Num(n) == [t |-> "number", n |-> n]
Str(s) == [t |-> "string", s |-> s]
Arr(items) == [t |-> "array", items |-> items]
NonObjects == {Null, Arr(<<>>), Str("a"), Num(1), [t |-> "boolean"]}

IsObj(v) == v.t = "object"

(* A cell holds an object's own properties `count' and `child', each a     *)
(* value, a nested object by reference; Absent marks a property the object *)
(* does not have.                                                          *)
Absent == [t |-> "absent"]
Prims == {Num(1), Num(2)}
EmptyProps == [count |-> Absent, child |-> Absent]
Free == [live |-> FALSE, props |-> EmptyProps]
Cell(p) == [live |-> TRUE, props |-> p]

IsLive(h, a) == a \in 1..Len(h) /\ h[a].live

(* The address a new object gets: the lowest cell not in use. *)
Alloc(h) ==
    IF \E a \in 1..Len(h) : ~h[a].live
    THEN CHOOSE a \in 1..Len(h) : ~h[a].live /\ \A b \in 1..(a - 1) : h[b].live
    ELSE Len(h) + 1

Put(h, a, cell) ==
    IF a = Len(h) + 1 THEN Append(h, cell) ELSE [h EXCEPT ![a] = cell]

(* Garbage collection: a cell no root reaches is free, and the heap ends   *)
(* at its last cell in use.                                                *)
RECURSIVE Refs(_)
Refs(v) ==
    IF IsObj(v) THEN {v.ref}
    ELSE IF v.t = "array" THEN UNION {Refs(v.items[i]) : i \in 1..Len(v.items)}
    ELSE {}

Children(h, S) == UNION {Refs(h[a].props.count) \cup Refs(h[a].props.child) : a \in S}

RECURSIVE Reach(_, _)
Reach(h, S) ==
    LET T == S \cup Children(h, S) IN IF T = S THEN S ELSE Reach(h, T)

RECURSIVE Trim(_)
Trim(h) ==
    IF h # <<>> /\ ~h[Len(h)].live THEN Trim(SubSeq(h, 1, Len(h) - 1)) ELSE h

Collect(h, roots) ==
    LET R == Reach(h, roots) IN
    Trim([a \in 1..Len(h) |-> IF a \in R THEN h[a] ELSE Free])

----------------------------------------------------------------------------
(* The Map: entries [key, value] in insertion order.                       *)

MapHas(m, k) == \E i \in 1..Len(m) : m[i].key = k

MapIndex(m, k) == CHOOSE i \in 1..Len(m) : m[i].key = k

(* Map.prototype.get: undefined when the key has no entry. *)
MapGet(m, k) == IF MapHas(m, k) THEN m[MapIndex(m, k)].value ELSE Undefined

(* MapSet, were it to leave an existing entry as it is. *)
MapSetKeepsFirst(m, k, v) ==
    IF MapHas(m, k) THEN m ELSE Append(m, [key |-> k, value |-> v])

(* MapSet, were it to drop the entries of the other keys. *)
MapSetAlone(m, k, v) == <<[key |-> k, value |-> v]>>

(* Map.prototype.set: an existing key keeps its place, a new one goes last. *)
MapSet(m, k, v) ==
    IF MapHas(m, k)
    THEN [m EXCEPT ![MapIndex(m, k)].value = v]
    ELSE Append(m, [key |-> k, value |-> v])

(* MapDelete, were it to remove the oldest entry whatever the key. *)
MapDeleteFirst(m, k) == IF m = <<>> THEN m ELSE Tail(m)

(* Map.prototype.delete *)
MapDelete(m, k) == SelectSeq(m, LAMBDA e : e.key # k)

(* Array.from(map.keys()) *)
MapKeys(m) == [i \in 1..Len(m) |-> m[i].key]

----------------------------------------------------------------------------
(* Regular expressions over the characters the model's patterns use:       *)
(* a literal matches itself, "." any character, "^" the start and "$" the  *)
(* end of the input, and a "[" that no "]" closes does not compile.        *)

(* StringTrim, were the text to be taken as it is. *)
StringTrimNone(s) == s

(* StringTrim, were only the whitespace at the start to go. *)
StringTrimStart(s) ==
    LET first == IF \E i \in 1..Len(s) : s[i] # " "
                 THEN CHOOSE i \in 1..Len(s) :
                          s[i] # " " /\ \A j \in 1..(i - 1) : s[j] = " "
                 ELSE Len(s) + 1
    IN  SubSeq(s, first, Len(s))

StringTrim(s) ==
    LET IsWs(ch) == ch = " "
        first == IF \E i \in 1..Len(s) : ~IsWs(s[i])
                 THEN CHOOSE i \in 1..Len(s) :
                          ~IsWs(s[i]) /\ \A j \in 1..(i - 1) : IsWs(s[j])
                 ELSE Len(s) + 1
        last == IF \E i \in 1..Len(s) : ~IsWs(s[i])
                THEN CHOOSE i \in 1..Len(s) :
                         ~IsWs(s[i]) /\ \A j \in (i + 1)..Len(s) : IsWs(s[j])
                ELSE 0
    IN  SubSeq(s, first, last)

RegExpCompiles(p) == \A i \in 1..Len(p) : p[i] # "["

RECURSIVE MatchFrom(_, _, _, _)
MatchFrom(p, i, s, j) ==
    IF i > Len(p) THEN TRUE
    ELSE IF p[i] = "^" THEN j = 1 /\ MatchFrom(p, i + 1, s, j)
    ELSE IF p[i] = "$" THEN j = Len(s) + 1 /\ MatchFrom(p, i + 1, s, j)
    ELSE j <= Len(s) /\ (p[i] = "." \/ p[i] = s[j]) /\ MatchFrom(p, i + 1, s, j + 1)

(* RegExpTest, were the pattern to be matched at the start of s only. *)
RegExpTestAtStart(p, s) == MatchFrom(p, 1, s, 1)

(* RegExp.prototype.test: does the pattern match somewhere in s *)
RegExpTest(p, s) == \E j \in 1..(Len(s) + 1) : MatchFrom(p, 1, s, j)

----------------------------------------------------------------------------
(* Store calls and what they settle with.                                  *)

NoKey == <<>>
NoPattern == <<>>
NoOp == [name |-> "none", key |-> NoKey, value |-> Undefined, pattern |-> NoPattern]
OpSet(k, v) == [name |-> "set", key |-> k, value |-> v, pattern |-> NoPattern]
OpGet(k) == [name |-> "get", key |-> k, value |-> Undefined, pattern |-> NoPattern]
OpDelete(k) == [name |-> "delete", key |-> k, value |-> Undefined, pattern |-> NoPattern]
OpSize == [name |-> "size", key |-> NoKey, value |-> Undefined, pattern |-> NoPattern]
OpClear == [name |-> "clear", key |-> NoKey, value |-> Undefined, pattern |-> NoPattern]
OpKeys(p) == [name |-> "keys", key |-> NoKey, value |-> Undefined, pattern |-> p]

InvalidValueMessage ==
    "Value must be a non-null JSON object (not array, not primitive, not null)"

Result(kind) ==
    [kind |-> kind, value |-> Undefined, n |-> 0, keys |-> <<>>, message |-> ""]
Pending == Result("pending")
Void == Result("void")
Returned(v) == [Result("value") EXCEPT !.value = v]
Counted(n) == [Result("size") EXCEPT !.n = n]
Listed(ks) == [Result("keys") EXCEPT !.keys = ks]
Thrown(msg) == [Result("error") EXCEPT !.message = msg]

(* typeof *)
TypeOf(v) == IF v.t \in {"object", "null", "array"} THEN "object" ELSE v.t

(* ValidValue, were it to forget that typeof null is "object". *)
ValidValueForgetsNull(v) == ~(TypeOf(v) # "object" \/ v.t = "array")

(* The test set makes before anything else: MemoryStore.ts line 19. *)
ValidValue(v) == ~(TypeOf(v) # "object" \/ v = Null \/ v.t = "array")

(* The own properties of a value.  The Store reads them of objects only;   *)
(* null, a number and a boolean have none.                                 *)
OwnProps(h, v) == IF IsObj(v) THEN h[v.ref].props ELSE EmptyProps

(* Spread, were it to serialise the value instead: JSON.stringify(value). *)
SpreadAsText(h, v) == [heap |-> h, value |-> Str("{}")]

(* { ...value }: a new object with the own properties of value, each       *)
(* property copied as it is, a nested object by reference.                 *)
Spread(h, v) ==
    LET a == Alloc(h) IN
    [heap |-> Put(h, a, Cell(OwnProps(h, v))), value |-> Obj(a)]

(* The content of a value, as deep equality (toEqual) compares it: the     *)
(* value itself, with the content of every object in it in the place of    *)
(* the reference.  null, undefined and {} are three contents.              *)
RECURSIVE Content(_, _)
Content(h, v) ==
    IF IsObj(v)
    THEN [t |-> "object",
          count |-> Content(h, h[v.ref].props.count),
          child |-> Content(h, h[v.ref].props.child)]
    ELSE IF v.t = "array"
    THEN Arr([i \in 1..Len(v.items) |-> Content(h, v.items[i])])
    ELSE v

NotWritten == [n |-> 0, by |-> 0, content |-> Content(<<>>, Undefined)]

(* The locals of execute's loop body: trimmedKey, parsedValue or           *)
(* parsedDefaultValue, and for the keys action getValues, keys and the     *)
(* position of the inner loop in keys.                                     *)
NoLocals ==
    [key |-> NoKey, parsed |-> Undefined, getValues |-> FALSE, keys |-> <<>>, j |-> 0]

(* The errors execute throws. *)
NoIndex == -1
NoError == [name |-> "", message |-> "", itemIndex |-> NoIndex]
Error(msg) == [name |-> "Error", message |-> msg, itemIndex |-> NoIndex]
ApplicationError(msg) ==
    [name |-> "ApplicationError", message |-> msg, itemIndex |-> NoIndex]
NodeOperationError(msg, i) ==
    [name |-> "NodeOperationError", message |-> msg, itemIndex |-> i]

(* What is remembered of a caller's getWithDefault item: the key, the      *)
(* content of the default, the size of the Store when the item began,      *)
(* what its internal get observed, and whether no other caller's callback  *)
(* has run since it began.                                                 *)
NotSeen ==
    [phase |-> "none", key |-> NoKey, dflt |-> Content(<<>>, Undefined), size |-> 0,
     observed |-> "", solo |-> TRUE]

(* No keys call to compare the next one with. *)
NotListed == [fresh |-> FALSE, pattern |-> NoPattern, keys |-> <<>>]

(* An object literal of the caller: { count: p, child: { count: q } }, p   *)
(* and q numbers, with either property left out when Absent.               *)
Shape(p, q) == [count |-> p, nested |-> q]

NewObject(h, shape) ==
    IF shape.nested = Absent
    THEN LET a == Alloc(h) IN
         [heap |-> Put(h, a, Cell([count |-> shape.count, child |-> Absent])),
          value |-> Obj(a)]
    ELSE LET b == Alloc(h)
             h1 == Put(h, b, Cell([count |-> shape.nested, child |-> Absent]))
             a == Alloc(h1)
         IN  [heap |-> Put(h1, a, Cell([count |-> shape.count, child |-> Obj(b)])),
              value |-> Obj(a)]

(* The objects something holds a reference to. *)
RefsOf(values) == {v.ref : v \in {w \in values : IsObj(w)}}

StoreRefs(m) == RefsOf({m[i].value : i \in 1..Len(m)})

(* A caller holds the object it passed to set and the object its last call *)
(* returned; an execution of the node holds the value it parsed and the    *)
(* values in the records it has pushed.                                    *)
HeldRefs(c) ==
    RefsOf({val[c], op[c].value, ret[c].value, cur[c].parsed}
           \cup {returnData[c][i].value : i \in 1..Len(returnData[c])})

Roots == StoreRefs(store) \cup UNION {HeldRefs(c) : c \in Callers}

----------------------------------------------------------------------------
(* The Store's methods.  Each is an async function: its own part runs when *)
(* it is called, up to mutex.runExclusive; the callback it hands over runs *)
(* once the mutex is acquired.                                             *)

(* The Store after earlier calls set(k, shape) for the keys ks, in order. *)
RECURSIVE Populated(_, _)
Populated(ks, shape) ==
    IF ks = <<>>
    THEN [store |-> <<>>, heap |-> <<>>]
    ELSE LET before == Populated(SubSeq(ks, 1, Len(ks) - 1), shape)
             new == NewObject(before.heap, shape)
         IN  [store |-> MapSet(before.store, ks[Len(ks)], new.value),
              heap |-> new.heap]

Idle ==
    /\ written = [k \in StoreKeys |->
                     IF MapHas(store, k)
                     THEN [n |-> 1, by |-> 0, content |-> Content(heap, MapGet(store, k))]
                     ELSE NotWritten]
    /\ passed = [c \in Callers |-> EmptyProps]
    /\ mutex = FALSE
    /\ queue = <<>>
    /\ pc = [c \in Callers |-> "idle"]
    /\ op = [c \in Callers |-> NoOp]
    /\ ret = [c \in Callers |-> Pending]
    /\ val = [c \in Callers |-> Undefined]
    /\ nops = 0
    /\ idx = [c \in Callers |-> 0]
    /\ cur = [c \in Callers |-> NoLocals]
    /\ returnData = [c \in Callers |-> <<>>]
    /\ error = [c \in Callers |-> NoError]
    /\ started = 0
    /\ seen = [c \in Callers |-> NotSeen]
    /\ listed = NotListed

(* The Store starts empty, or holding what earlier calls have left in it.  *)
(* Its direct callers parse no text and read no message of the engine:     *)
(* which engine runs them makes no difference to what they do, and one     *)
(* stands for all.                                                         *)
Init ==
    /\ \E ks \in {<<>>, <<KeyA, KeyB>>} :
           LET before == Populated(ks, Shape(Num(1), Absent)) IN
           store = before.store /\ heap = before.heap
    /\ Idle
    /\ apc = [c \in Callers |-> "off"]
    /\ engine = CHOOSE e \in Engines : TRUE

(* The Mutex of async-mutex, as the Store uses it: mutex.isLocked(). *)
isLocked == mutex

(* mutex.runExclusive(callback).  A free mutex is taken inside the call,   *)
(* and the callback runs on a later turn; a call on a locked mutex joins   *)
(* the queue behind the calls that wait already.                           *)
runExclusive(c, o, h) ==
    /\ pc[c] = "idle"
    /\ op' = [op EXCEPT ![c] = o]
    /\ ret' = [ret EXCEPT ![c] = Pending]
    /\ IF isLocked
       THEN /\ pc' = [pc EXCEPT ![c] = "wait"]
            /\ queue' = Append(queue, c)
            /\ UNCHANGED mutex
       ELSE /\ pc' = [pc EXCEPT ![c] = "cs"]
            /\ mutex' = TRUE
            /\ UNCHANGED queue
    /\ passed' = [passed EXCEPT ![c] = OwnProps(h, o.value)]
    /\ UNCHANGED <<store, written>>
    /\ heap' = Collect(h, Roots')

(* set, were the value checked only once the mutex is free. *)
setWaitsForLock(c, k, v, h) ==
    IF ~ValidValue(v)
    THEN /\ pc[c] = "idle" /\ ~mutex
         /\ ret' = [ret EXCEPT ![c] = Thrown(InvalidValueMessage)]
         /\ UNCHANGED <<store, mutex, queue, pc, op, passed, written>>
         /\ heap' = Collect(h, Roots')
    ELSE runExclusive(c, OpSet(k, v), h)

(* set(key, value), called with heap h: a value that is no object rejects  *)
(* the call at once.                                                       *)
set(c, k, v, h) ==
    IF ~ValidValue(v)
    THEN /\ pc[c] = "idle"
         /\ ret' = [ret EXCEPT ![c] = Thrown(InvalidValueMessage)]
         /\ UNCHANGED <<store, mutex, queue, pc, op, passed, written>>
         /\ heap' = Collect(h, Roots')
    ELSE runExclusive(c, OpSet(k, v), h)

(* get, were it to read the map without asking for the mutex. *)
getWithoutMutex(c, k, h) ==
    LET value == MapGet(store, k) IN
    /\ pc[c] = "idle"
    /\ IF value # Undefined
       THEN LET copy == Spread(h, value) IN
            /\ ret' = [ret EXCEPT ![c] = Returned(copy.value)]
            /\ heap' = Collect(copy.heap, Roots')
       ELSE /\ ret' = [ret EXCEPT ![c] = Returned(Null)]
            /\ heap' = Collect(h, Roots')
    /\ UNCHANGED <<store, mutex, queue, pc, op, passed, written>>

get(c, k, h) == runExclusive(c, OpGet(k), h)

delete(c, k) == runExclusive(c, OpDelete(k), heap)

size(c) == runExclusive(c, OpSize, heap)

clear(c) == runExclusive(c, OpClear, heap)

keys(c, p) == runExclusive(c, OpKeys(p), heap)

(* setCallback, were it to leave an entry the key already has. *)
setCallbackKeepsEntry(m, h, k, v) ==
    IF MapHas(m, k)
    THEN [store |-> m, heap |-> h, ret |-> Void]
    ELSE LET copy == Spread(h, v) IN
         [store |-> MapSet(m, k, copy.value), heap |-> copy.heap, ret |-> Void]

(* setCallback, were it to merge the value into the entry the key has. *)
setCallbackMerges(m, h, k, v) ==
    LET old == OwnProps(h, MapGet(m, k))
        new == OwnProps(h, v)
        a == Alloc(h)
        merged == [count |-> IF new.count # Absent THEN new.count ELSE old.count,
                   child |-> IF new.child # Absent THEN new.child ELSE old.child]
    IN  [store |-> MapSet(m, k, Obj(a)), heap |-> Put(h, a, Cell(merged)),
         ret |-> Void]

(* The callbacks: what each method does while it holds the mutex. *)
setCallback(m, h, k, v) ==
    LET copy == Spread(h, v) IN
    [store |-> MapSet(m, k, copy.value), heap |-> copy.heap, ret |-> Void]

(* getCallback, were it to hand out the stored object itself. *)
getCallbackByReference(m, h, k) ==
    LET value == MapGet(m, k) IN
    [store |-> m, heap |-> h,
     ret |-> Returned(IF value # Undefined THEN value ELSE Null)]

(* getCallback, were it to hand out what Map.get returns for a missing key. *)
getCallbackUndefined(m, h, k) ==
    LET value == MapGet(m, k) IN
    IF value # Undefined
    THEN LET copy == Spread(h, value) IN
         [store |-> m, heap |-> copy.heap, ret |-> Returned(copy.value)]
    ELSE [store |-> m, heap |-> h, ret |-> Returned(value)]

(* getCallback, were reading an entry to take it out of the Map. *)
getCallbackTakes(m, h, k) ==
    LET value == MapGet(m, k) IN
    IF value # Undefined
    THEN LET copy == Spread(h, value) IN
         [store |-> MapDelete(m, k), heap |-> copy.heap, ret |-> Returned(copy.value)]
    ELSE [store |-> m, heap |-> h, ret |-> Returned(Null)]

getCallback(m, h, k) ==
    LET value == MapGet(m, k) IN
    IF value # Undefined
    THEN LET copy == Spread(h, value) IN
         [store |-> m, heap |-> copy.heap, ret |-> Returned(copy.value)]
    ELSE [store |-> m, heap |-> h, ret |-> Returned(Null)]

(* deleteCallback, were deleting a key without entry to fail. *)
deleteCallbackRejectsMissing(m, h, k) ==
    IF MapHas(m, k)
    THEN [store |-> MapDelete(m, k), heap |-> h, ret |-> Void]
    ELSE [store |-> m, heap |-> h, ret |-> Thrown("Key not found")]

deleteCallback(m, h, k) == [store |-> MapDelete(m, k), heap |-> h, ret |-> Void]

(* sizeCallback, were it to count the distinct values instead of the keys. *)
sizeCallbackCountsValues(m, h) ==
    [store |-> m, heap |-> h,
     ret |-> Counted(Cardinality({Content(h, m[i].value) : i \in 1..Len(m)}))]

sizeCallback(m, h) == [store |-> m, heap |-> h, ret |-> Counted(Len(m))]

(* clearCallback, were it to leave the newest entry. *)
clearCallbackKeepsLast(m, h) ==
    [store |-> IF m = <<>> THEN m ELSE <<m[Len(m)]>>, heap |-> h, ret |-> Void]

clearCallback(m, h) == [store |-> <<>>, heap |-> h, ret |-> Void]

(* keysCallback, were the catch to return no key. *)
keysCallbackEmptyOnError(m, h, filterPattern) ==
    LET allKeys == MapKeys(m)
        found ==
            IF filterPattern = NoPattern \/ StringTrim(filterPattern) = <<>>
            THEN allKeys
            ELSE IF RegExpCompiles(filterPattern)
                 THEN SelectSeq(allKeys, LAMBDA key : RegExpTest(filterPattern, key))
                 ELSE <<>>
    IN  [store |-> m, heap |-> h, ret |-> Listed(found)]

(* keysCallback, were reading the keys to turn the Map's order around. *)
keysCallbackReverses(m, h, filterPattern) ==
    LET allKeys == MapKeys(m)
        found ==
            IF filterPattern = NoPattern \/ StringTrim(filterPattern) = <<>>
            THEN allKeys
            ELSE IF RegExpCompiles(filterPattern)
                 THEN SelectSeq(allKeys, LAMBDA key : RegExpTest(filterPattern, key))
                 ELSE allKeys
    IN  [store |-> [i \in 1..Len(m) |-> m[Len(m) + 1 - i]], heap |-> h,
         ret |-> Listed(found)]

keysCallback(m, h, filterPattern) ==
    LET allKeys == MapKeys(m)
        found ==
            IF filterPattern = NoPattern \/ StringTrim(filterPattern) = <<>>
            THEN allKeys
            ELSE IF RegExpCompiles(filterPattern)
                 THEN SelectSeq(allKeys, LAMBDA key : RegExpTest(filterPattern, key))
                 ELSE allKeys
    IN  [store |-> m, heap |-> h, ret |-> Listed(found)]

(* Callback, were delete to run the callback of clear. *)
CallbackDeleteClears(o, m, h) ==
    CASE o.name = "set" -> setCallback(m, h, o.key, o.value)
      [] o.name = "get" -> getCallback(m, h, o.key)
      [] o.name = "delete" -> clearCallback(m, h)
      [] o.name = "size" -> sizeCallback(m, h)
      [] o.name = "clear" -> clearCallback(m, h)
      [] o.name = "keys" -> keysCallback(m, h, o.pattern)

Callback(o, m, h) ==
    CASE o.name = "set" -> setCallback(m, h, o.key, o.value)
      [] o.name = "get" -> getCallback(m, h, o.key)
      [] o.name = "delete" -> deleteCallback(m, h, o.key)
      [] o.name = "size" -> sizeCallback(m, h)
      [] o.name = "clear" -> clearCallback(m, h)
      [] o.name = "keys" -> keysCallback(m, h, o.pattern)

(* The callback of a call that holds the mutex runs on a later turn. *)
callback(c) ==
    /\ pc[c] = "cs"
    /\ LET done == Callback(op[c], store, heap) IN
       /\ store' = done.store
       /\ ret' = [ret EXCEPT ![c] = done.ret]
       /\ pc' = [pc EXCEPT ![c] = "rel"]
       /\ written' =
              CASE op[c].name = "set" ->
                       [written EXCEPT ![op[c].key] =
                            [n |-> @.n + 1, by |-> c,
                             content |-> Content(heap, op[c].value)]]
                [] op[c].name = "delete" -> [written EXCEPT ![op[c].key] = NotWritten]
                [] op[c].name = "clear" -> [k \in StoreKeys |-> NotWritten]
                [] OTHER -> written
       /\ seen' = [d \in Callers |->
                       IF d # c /\ seen[d].phase # "none"
                       THEN [seen[d] EXCEPT !.solo = FALSE]
                       ELSE seen[d]]
       /\ listed' =
              CASE op[c].name = "keys" ->
                       [fresh |-> TRUE, pattern |-> op[c].pattern,
                        keys |-> done.ret.keys]
                [] op[c].name \in {"set", "delete", "clear"} -> NotListed
                [] OTHER -> listed
       /\ UNCHANGED <<mutex, queue, op, passed, callerVars>>
       /\ heap' = Collect(done.heap, Roots')

(* release, were the mutex left locked at the end of the critical section. *)
releaseKeepsLock(c) ==
    /\ pc[c] = "rel"
    /\ pc' = [pc EXCEPT ![c] = "idle"]
    /\ op' = [op EXCEPT ![c] = NoOp]
    /\ passed' = [passed EXCEPT ![c] = EmptyProps]
    /\ UNCHANGED <<mutex, queue, store, heap, ret, written, callerVars, seen, listed>>

(* The end of runExclusive: the mutex goes to the call that has waited     *)
(* longest, within the release, and is free when no call waits.            *)
release(c) ==
    /\ pc[c] = "rel"
    /\ IF queue = <<>>
       THEN /\ mutex' = FALSE
            /\ pc' = [pc EXCEPT ![c] = "idle"]
            /\ UNCHANGED queue
       ELSE /\ mutex' = TRUE
            /\ pc' = [pc EXCEPT ![c] = "idle", ![Head(queue)] = "cs"]
            /\ queue' = Tail(queue)
    /\ op' = [op EXCEPT ![c] = NoOp]
    /\ passed' = [passed EXCEPT ![c] = EmptyProps]
    /\ UNCHANGED <<store, heap, ret, written, callerVars, seen, listed>>

----------------------------------------------------------------------------
(* The Store's direct callers: each issues one call at a time, with any    *)
(* arguments, and awaits it.                                               *)

Patterns == {NoPattern, <<" ">>, <<"^", "a">>, <<"b">>, <<"[">>}

Shapes == {Shape(Absent, Absent), Shape(Num(2), Num(1))}

Issue == nops < MaxOps /\ nops' = nops + 1 /\ UNCHANGED <<adapterVars, engine, seen, listed>>

(* set(k, { ... }) with an object literal *)
CallSetLiteral(c) ==
    \E k \in StoreKeys, shape \in Shapes :
        LET new == NewObject(heap, shape) IN
        Issue /\ UNCHANGED val /\ set(c, k, new.value, new.heap)

(* set with null, an array or a primitive *)
CallSetInvalid(c) ==
    \E k \in StoreKeys, v \in NonObjects :
        Issue /\ UNCHANGED val /\ set(c, k, v, heap)

CallGet(c) == \E k \in StoreKeys : Issue /\ UNCHANGED val /\ get(c, k, heap)

CallDelete(c) == \E k \in StoreKeys : Issue /\ UNCHANGED val /\ delete(c, k)

CallSize(c) == Issue /\ UNCHANGED val /\ size(c)

CallClear(c) == Issue /\ UNCHANGED val /\ clear(c)

CallKeys(c) == \E p \in Patterns : Issue /\ UNCHANGED val /\ keys(c, p)

Next ==
    \E c \in Callers :
        \/ CallSetLiteral(c)
        \/ CallSetInvalid(c)
        \/ CallGet(c)
        \/ CallDelete(c)
        \/ CallSize(c)
        \/ CallClear(c)
        \/ CallKeys(c)
        \/ callback(c)
        \/ release(c)

Spec == Init /\ [][Next]_vars

(* Fair scheduling.  The callback of a call is synchronous code that runs  *)
(* once the mutex is acquired, and runExclusive releases the mutex when    *)
(* the callback is done: neither step can be put off for ever.  A release  *)
(* hands the mutex to the first call of the queue, so a call that waits    *)
(* gets it after the calls that came before it.                            *)
Fairness ==
    \A c \in Callers :
        /\ WF_vars(callback(c))
        /\ WF_vars(release(c))

FairSpec == Spec /\ Fairness

----------------------------------------------------------------------------
(* Callers that keep the object they pass to set in a variable and write   *)
(* to the objects they hold, as the Store's tests of independent copies do *)
(* (tests/MemoryState.node.test.ts lines 645 to 686), at any moment.       *)

AliasKeys == {KeyA}

AliasShapes == {Shape(Num(1), Absent), Shape(Num(1), Num(1))}

AliasInit ==
    /\ \E ks \in {<<>>, <<KeyA>>} :
           LET before == Populated(ks, Shape(Num(1), Num(1))) IN
           store = before.store /\ heap = before.heap
    /\ Idle
    /\ apc = [c \in Callers |-> "off"]
    /\ engine = CHOOSE e \in Engines : TRUE

(* const value = { ... }; set(k, value) *)
KeepSetLiteral(c) ==
    \E k \in AliasKeys, shape \in AliasShapes :
        LET new == NewObject(heap, shape) IN
        /\ Issue
        /\ val' = [val EXCEPT ![c] = new.value]
        /\ set(c, k, new.value, new.heap)

(* set with an object the caller holds: the one it passed before, or the   *)
(* one its last get returned                                               *)
KeepSetHeld(c) ==
    \E k \in AliasKeys, a \in HeldRefs(c) :
        /\ Issue
        /\ val' = [val EXCEPT ![c] = Obj(a)]
        /\ set(c, k, Obj(a), heap)

KeepGet(c) == \E k \in AliasKeys : Issue /\ UNCHANGED val /\ get(c, k, heap)

(* value.count = p, on an object the caller holds *)
AssignCount(c) ==
    \E a \in HeldRefs(c), p \in Prims \ {Num(1)} :
        /\ heap[a].props.count # p
        /\ heap' = [heap EXCEPT ![a].props.count = p]
        /\ UNCHANGED <<store, mutex, queue, pc, op, ret, passed, written, callerVars, seen, listed>>

(* value.child.count = p, on an object the caller holds *)
AssignChildCount(c) ==
    \E a \in HeldRefs(c), p \in Prims \ {Num(1)} :
        /\ IsObj(heap[a].props.child)
        /\ heap[heap[a].props.child.ref].props.count # p
        /\ heap' = [heap EXCEPT ![heap[a].props.child.ref].props.count = p]
        /\ UNCHANGED <<store, mutex, queue, pc, op, ret, passed, written, callerVars, seen, listed>>

AliasNext ==
    \E c \in Callers :
        \/ KeepSetLiteral(c)
        \/ KeepSetHeld(c)
        \/ KeepGet(c)
        \/ AssignCount(c)
        \/ AssignChildCount(c)
        \/ callback(c)
        \/ release(c)

AliasSpec == AliasInit /\ [][AliasNext]_vars

----------------------------------------------------------------------------
(* The node: execute works through its input items one after the other,    *)
(* and calls the Store for each.  Several executions run at once, one per  *)
(* caller.                                                                 *)

(* JSON text, as the sequence of its lexemes: the punctuators, null, the   *)
(* numbers 1 and 2 and the strings "count" and "child", with one space     *)
(* between two lexemes.                                                    *)
Text(s) == [t |-> "string", text |-> s]

(* An object a parameter supplies as such, by the literal it is equal to. *)
Given(shape) == [t |-> "given", shape |-> shape]

Names == {"count", "child"}

(* The characters of a lexeme: a string has its quotes. *)
Spelled(l) == IF l \in Names THEN "\"" \o l \o "\"" ELSE l

(* The characters of the text. *)
RECURSIVE Source(_)
Source(t) ==
    IF t = <<>> THEN ""
    ELSE IF Len(t) = 1 THEN Spelled(t[1])
    ELSE Spelled(t[1]) \o " " \o Source(Tail(t))

(* The index in the text, from 0, of the first character of lexeme i, and  *)
(* of the end of the text when there is no lexeme i.                       *)
Position(t, i) ==
    IF i > Len(t) THEN Len(Source(t))
    ELSE IF i = 1 THEN 0
    ELSE Len(Source(SubSeq(t, 1, i - 1))) + 1

(* What JSON.parse reads, before it is a value with its objects on the     *)
(* heap.                                                                   *)
JAbsent == [k |-> "absent"]
JNull == [k |-> "null"]
JNumber(n) == [k |-> "number", n |-> n]
JString(s) == [k |-> "string", s |-> s]
JArray(items) == [k |-> "array", items |-> items]
JObject(count, child) == [k |-> "object", count |-> count, child |-> child]

(* Whether the engine's messages give line and column after the position,  *)
(* and whether it names the colon it misses after the name of a property   *)
(* that is not the first of its object.                                    *)
GivesLineAndColumn(e) == e = "V8 12.4"
NamesEveryColon(e) == e = "V8 12.4"

(* What the parser reports when lexeme at is not one it can take: what it  *)
(* expected there, or, where it names nothing, the lexeme it found.        *)
ByToken == ""
ExpectedPropNameOrRBrace == "Expected property name or '}' in JSON"
ExpectedDoubleQuotedPropertyName == "Expected double-quoted property name in JSON"
ExpectedColonAfterPropertyName == "Expected ':' after property name in JSON"
ExpectedCommaOrRBrace == "Expected ',' or '}' after property value in JSON"
ExpectedCommaOrRBrack == "Expected ',' or ']' after array element in JSON"
UnexpectedNonWhiteSpaceCharacter == "Unexpected non-whitespace character after JSON"

NoParse(expected, at) ==
    [ok |-> FALSE, tree |-> JAbsent, next |-> at, expected |-> expected]
Parsed(tree, next) ==
    [ok |-> TRUE, tree |-> tree, next |-> next, expected |-> ByToken]

RECURSIVE ParseValue(_, _, _)
RECURSIVE ParseMembers(_, _, _, _, _, _)
RECURSIVE ParseElements(_, _, _, _)

(* The members of an object, from the name at t[i] on, up to its "}": a    *)
(* name, a colon and a value, then a comma and more members, or the "}".   *)
(* A name that comes again replaces the member.                            *)
ParseMembers(e, t, i, acc, name, colon) ==
    IF i > Len(t) \/ t[i] \notin Names
    THEN NoParse(name, i)
    ELSE IF i + 1 > Len(t) \/ t[i + 1] # ":"
    THEN NoParse(colon, i + 1)
    ELSE LET v == ParseValue(e, t, i + 2) IN
         IF ~v.ok
         THEN v
         ELSE LET more == IF t[i] = "count"
                          THEN [acc EXCEPT !.count = v.tree]
                          ELSE [acc EXCEPT !.child = v.tree]
              IN  IF v.next <= Len(t) /\ t[v.next] = ","
                  THEN ParseMembers(e, t, v.next + 1, more,
                                    ExpectedDoubleQuotedPropertyName,
                                    IF NamesEveryColon(e)
                                    THEN ExpectedColonAfterPropertyName
                                    ELSE ByToken)
                  ELSE IF v.next <= Len(t) /\ t[v.next] = "}"
                       THEN Parsed(more, v.next + 1)
                       ELSE NoParse(ExpectedCommaOrRBrace, v.next)

(* The elements of an array, from the value at t[i] on, up to its "]". *)
ParseElements(e, t, i, acc) ==
    LET v == ParseValue(e, t, i) IN
    IF ~v.ok
    THEN v
    ELSE IF v.next <= Len(t) /\ t[v.next] = ","
         THEN ParseElements(e, t, v.next + 1, Append(acc, v.tree))
         ELSE IF v.next <= Len(t) /\ t[v.next] = "]"
              THEN Parsed(JArray(Append(acc, v.tree)), v.next + 1)
              ELSE NoParse(ExpectedCommaOrRBrack, v.next)

(* The JSON value that starts at t[i]. *)
ParseValue(e, t, i) ==
    IF i > Len(t) THEN NoParse(ByToken, i)
    ELSE IF t[i] = "null" THEN Parsed(JNull, i + 1)
    ELSE IF t[i] = "1" THEN Parsed(JNumber(1), i + 1)
    ELSE IF t[i] = "2" THEN Parsed(JNumber(2), i + 1)
    ELSE IF t[i] \in Names THEN Parsed(JString(t[i]), i + 1)
    ELSE IF t[i] = "["
         THEN IF i + 1 <= Len(t) /\ t[i + 1] = "]"
              THEN Parsed(JArray(<<>>), i + 2)
              ELSE ParseElements(e, t, i + 1, <<>>)
    ELSE IF t[i] = "{"
         THEN IF i + 1 <= Len(t) /\ t[i + 1] = "}"
              THEN Parsed(JObject(JAbsent, JAbsent), i + 2)
              ELSE ParseMembers(e, t, i + 1, JObject(JAbsent, JAbsent),
                                ExpectedPropNameOrRBrace,
                                ExpectedColonAfterPropertyName)
    ELSE NoParse(ByToken, i)

(* A value r was read from the start of the text: nothing follows it. *)
CheckEOS(t, r) ==
    IF r.ok /\ r.next <= Len(t)
    THEN NoParse(UnexpectedNonWhiteSpaceCharacter, r.next)
    ELSE r

(* The one value of the text. *)
ParseJson(e, t) == CheckEOS(t, ParseValue(e, t, 1))

(* The value of what was read, on the heap: every object a new cell, the   *)
(* objects in it before the object itself.                                 *)
RECURSIVE Build(_, _)
RECURSIVE BuildItems(_, _, _)

BuildItems(h, trees, done) ==
    IF trees = <<>>
    THEN [heap |-> h, value |-> done]
    ELSE LET first == Build(h, Head(trees)) IN
         BuildItems(first.heap, Tail(trees), Append(done, first.value))

Build(h, tree) ==
    IF tree.k = "absent" THEN [heap |-> h, value |-> Absent]
    ELSE IF tree.k = "null" THEN [heap |-> h, value |-> Null]
    ELSE IF tree.k = "number" THEN [heap |-> h, value |-> Num(tree.n)]
    ELSE IF tree.k = "string" THEN [heap |-> h, value |-> Str(tree.s)]
    ELSE IF tree.k = "array"
    THEN LET all == BuildItems(h, tree.items, <<>>) IN
         [heap |-> all.heap, value |-> Arr(all.value)]
    ELSE LET count == Build(h, tree.count)
             child == Build(count.heap, tree.child)
             a == Alloc(child.heap)
         IN  [heap |-> Put(child.heap, a,
                           Cell([count |-> count.value, child |-> child.value])),
              value |-> Obj(a)]

(* Where in the text the parser stopped, as its messages give it. *)
Located(e, pos) ==
    " at position " \o ToString(pos)
    \o (IF GivesLineAndColumn(e)
        THEN " (line 1 column " \o ToString(pos + 1) \o ")"
        ELSE "")

(* The text around the parser's position: the whole of a text of at most   *)
(* twice MaxContextCharacters characters, of a longer one at most          *)
(* MaxContextCharacters before the position and as many from it on.        *)
MaxContextCharacters == 10

WithEllipses(character, source, pos) ==
    "Unexpected token '" \o character \o "', "
    \o (IF Len(source) < 2 * MaxContextCharacters + 1
        THEN "\"" \o source \o "\" is not valid JSON"
        ELSE IF pos < MaxContextCharacters
        THEN "\"" \o SubSeq(source, 1, pos + MaxContextCharacters)
             \o "\"... is not valid JSON"
        ELSE IF pos < Len(source) - MaxContextCharacters
        THEN "...\""
             \o SubSeq(source, pos - MaxContextCharacters + 1,
                       pos + MaxContextCharacters)
             \o "\"... is not valid JSON"
        ELSE "...\""
             \o SubSeq(source, pos - MaxContextCharacters + 1, Len(source))
             \o "\" is not valid JSON")

(* The message for a lexeme the parser found where it names no other. *)
UnexpectedToken(e, t, i) ==
    IF i > Len(t) THEN "Unexpected end of JSON input"
    ELSE IF t[i] \in {"1", "2"}
    THEN "Unexpected number in JSON" \o Located(e, Position(t, i))
    ELSE IF t[i] \in Names
    THEN "Unexpected string in JSON" \o Located(e, Position(t, i))
    ELSE WithEllipses(SubSeq(Spelled(t[i]), 1, 1), Source(t), Position(t, i))

(* The message for r, the report of a text that could not be read. *)
ReportUnexpectedToken(e, t, r) ==
    IF r.expected = ByToken
    THEN UnexpectedToken(e, t, r.next)
    ELSE r.expected \o Located(e, Position(t, r.next))

(* The message of the SyntaxError JSON.parse throws for a text it cannot   *)
(* read.                                                                   *)
SyntaxErrorMessage(e, t) == ReportUnexpectedToken(e, t, ParseJson(e, t))

Evaluated(h, v) == [ok |-> TRUE, heap |-> h, value |-> v, error |-> NoError]
Failed(h, e) == [ok |-> FALSE, heap |-> h, value |-> Undefined, error |-> e]

(* What JSON.parse gives for a text read as r: the value, its objects new  *)
(* ones on the heap, or a SyntaxError.                                     *)
ParseResult(h, text, r) ==
    IF ~r.ok
    THEN Failed(h, Error(SyntaxErrorMessage(engine, text)))
    ELSE LET new == Build(h, r.tree) IN Evaluated(new.heap, new.value)

(* JSON.parse(text) *)
JSONparse(h, text) == ParseResult(h, text, ParseJson(engine, text))

(* The try block of the set and getWithDefault cases: text is parsed, any  *)
(* other value is taken as it is, and what is no object is rejected; the   *)
(* catch wraps either failure.                                             *)
ParseAndValidate(h, raw, what) ==
    LET read == IF raw.t = "string" THEN JSONparse(h, raw.text)
                ELSE IF raw.t = "given"
                     THEN LET new == NewObject(h, raw.shape) IN
                          Evaluated(new.heap, new.value)
                     ELSE Evaluated(h, raw)
        checked == IF read.ok /\ ~ValidValue(read.value)
                   THEN Failed(h, ApplicationError(what \o " must be a JSON object"))
                   ELSE read
    IN  IF checked.ok
        THEN checked
        ELSE Failed(h, ApplicationError(
                 "Invalid JSON " \o (IF what = "Value" THEN "value" ELSE "default value")
                 \o ": " \o checked.error.message \o ". " \o what
                 \o " must be a JSON object (not array, not primitive, not null)"))

parsedValue(h, rawValue) == ParseAndValidate(h, rawValue, "Value")

(* parsedDefaultValue, were the default parsed but its shape not checked. *)
parsedDefaultValueUnchecked(h, rawDefaultValue) ==
    IF rawDefaultValue.t = "string"
    THEN LET read == JSONparse(h, rawDefaultValue.text) IN
         IF read.ok THEN read
         ELSE ParseAndValidate(h, rawDefaultValue, "Default value")
    ELSE IF rawDefaultValue.t = "given"
         THEN ParseAndValidate(h, rawDefaultValue, "Default value")
         ELSE Evaluated(h, rawDefaultValue)

parsedDefaultValue(h, rawDefaultValue) ==
    ParseAndValidate(h, rawDefaultValue, "Default value")

(* The parameters of the items. *)
RawKeys == {<<>>, <<" ">>, <<" ", "a", " ">>, <<"A", "b">>}

RawValues ==
    {Text(<<"{", "count", ":", "2", "}">>),
     Given(Shape(Num(1), Num(1))),
     Text(<<"{">>), Text(<<"null">>), Text(<<"[", "1", "]">>), Text(<<"1">>),
     Null, Arr(<<>>), Num(1)}

RawPatterns == {NoPattern, <<" ", "^", "a">>, <<"[">>}

OtherActions == {"increment"}

(* The records execute pushes: { key }, { key, value }, { key, success }. *)
KeyOnly(k) == [has |-> {"key"}, key |-> k, value |-> Undefined, success |-> FALSE]
KeyValue(k, v) ==
    [has |-> {"key", "value"}, key |-> k, value |-> v, success |-> FALSE]
KeySuccess(k) ==
    [has |-> {"key", "success"}, key |-> k, value |-> Undefined, success |-> TRUE]

(* Caught, were the wrapping error to be made without the item's index. *)
CaughtWithoutIndex(e, i) ==
    IF e.name = "NodeOperationError"
    THEN e
    ELSE NodeOperationError("Error executing Memory State operation: " \o e.message,
                            NoIndex)

(* The catch of the loop body: a NodeOperationError goes on as it is, any  *)
(* other error is wrapped, with the index of the item.                     *)
Caught(e, i) ==
    IF e.name = "NodeOperationError"
    THEN e
    ELSE NodeOperationError("Error executing Memory State operation: " \o e.message, i)

(* IsNull, were the default to be written whatever get returned. *)
IsNullAlways(v) == TRUE

(* IsNull, were the default never to be written. *)
IsNullNever(v) == FALSE

(* value === null *)
IsNull(v) == v = Null

(* KeyMissing, were only the empty key refused. *)
KeyMissingOnlyEmpty(key) == key = <<>>

(* !key || key.trim() === '' *)
KeyMissing(key) == key = <<>> \/ StringTrim(key) = <<>>

Forget(c) == [seen EXCEPT ![c] = NotSeen]

(* What the internal get of a getWithDefault item found under the key. *)
Observed(value) == IF value = Null THEN "absent" ELSE "present"

(* The loop takes its next item. *)
Begin(c) ==
    /\ apc[c] = "loop" /\ pc[c] = "idle"
    /\ started < MaxItems
    /\ started' = started + 1
    /\ UNCHANGED <<val, nops, engine, listed>>

(* The await of a Store call has settled. *)
Resume(c, at) ==
    /\ apc[c] = at /\ pc[c] = "idle"
    /\ UNCHANGED <<started, val, nops, engine, listed>>

(* Throw, were the failure of an item noted and the loop to go on. *)
ThrowAndGoOn(c, e) ==
    /\ apc' = [apc EXCEPT ![c] = "loop"]
    /\ idx' = [idx EXCEPT ![c] = @ + 1]
    /\ error' = [error EXCEPT ![c] = Caught(e, idx[c])]
    /\ cur' = [cur EXCEPT ![c] = NoLocals]
    /\ UNCHANGED <<returnData, store, mutex, queue, pc, op, ret, passed, written>>
    /\ heap' = Collect(heap, Roots')

(* execute throws: it returns no records. *)
Throw(c, e) ==
    /\ apc' = [apc EXCEPT ![c] = "threw"]
    /\ error' = [error EXCEPT ![c] = Caught(e, idx[c])]
    /\ returnData' = [returnData EXCEPT ![c] = <<>>]
    /\ cur' = [cur EXCEPT ![c] = NoLocals]
    /\ UNCHANGED <<idx, store, mutex, queue, pc, op, ret, passed, written>>
    /\ heap' = Collect(heap, Roots')

KeyRequired(c) ==
    Throw(c, NodeOperationError("Key is required and cannot be empty", idx[c]))

(* Push, were the records put in front of those of the items before. *)
PushInFront(c, records) ==
    /\ apc' = [apc EXCEPT ![c] = "loop"]
    /\ idx' = [idx EXCEPT ![c] = @ + 1]
    /\ returnData' = [returnData EXCEPT ![c] = records \o @]
    /\ cur' = [cur EXCEPT ![c] = NoLocals]
    /\ UNCHANGED <<error, store, mutex, queue, pc, op, ret, passed, written>>
    /\ heap' = Collect(heap, Roots')

(* The item is done: its records are pushed and the loop goes on. *)
Push(c, records) ==
    /\ apc' = [apc EXCEPT ![c] = "loop"]
    /\ idx' = [idx EXCEPT ![c] = @ + 1]
    /\ returnData' = [returnData EXCEPT ![c] = @ \o records]
    /\ cur' = [cur EXCEPT ![c] = NoLocals]
    /\ UNCHANGED <<error, store, mutex, queue, pc, op, ret, passed, written>>
    /\ heap' = Collect(heap, Roots')

(* execute is about to await a Store call. *)
Await(c, at, locals) ==
    /\ apc' = [apc EXCEPT ![c] = at]
    /\ cur' = [cur EXCEPT ![c] = locals]
    /\ UNCHANGED <<idx, returnData, error>>

(* action 'keys' *)
ItemKeysOf(c, getValues, filterPattern) ==
    /\ Begin(c)
    /\ seen' = Forget(c)
    /\ Await(c, "keys", [NoLocals EXCEPT !.getValues = getValues])
    /\ keys(c, StringTrim(filterPattern))

ItemKeys(c) ==
    \E getValues \in BOOLEAN, filterPattern \in RawPatterns :
        ItemKeysOf(c, getValues, filterPattern)

ResumeKeys(c) ==
    /\ Resume(c, "keys")
    /\ UNCHANGED seen
    /\ LET ks == ret[c].keys IN
       IF cur[c].getValues /\ ks # <<>>
       THEN /\ Await(c, "keysGet", [cur[c] EXCEPT !.keys = ks, !.j = 1])
            /\ get(c, ks[1], heap)
       ELSE Push(c, IF cur[c].getValues THEN <<>>
                    ELSE [i \in 1..Len(ks) |-> KeyOnly(ks[i])])

ResumeKeysGet(c) ==
    /\ Resume(c, "keysGet")
    /\ UNCHANGED seen
    /\ LET ks == cur[c].keys
           j == cur[c].j
           record == KeyValue(ks[j], ret[c].value)
       IN  IF j < Len(ks)
           THEN /\ cur' = [cur EXCEPT ![c].j = j + 1]
                /\ returnData' = [returnData EXCEPT ![c] = Append(@, record)]
                /\ UNCHANGED <<apc, idx, error>>
                /\ get(c, ks[j + 1], heap)
           ELSE Push(c, <<record>>)

(* case 'set' *)
ItemSetOf(c, key, rawValue) ==
    /\ Begin(c)
    /\ seen' = Forget(c)
    /\ IF KeyMissing(key)
       THEN KeyRequired(c)
       ELSE LET trimmedKey == StringTrim(key)
                value == parsedValue(heap, rawValue)
            IN  IF ~value.ok
                THEN Throw(c, value.error)
                ELSE /\ Await(c, "set", [NoLocals EXCEPT !.key = trimmedKey,
                                                        !.parsed = value.value])
                     /\ set(c, trimmedKey, value.value, value.heap)

ItemSet(c) ==
    \E key \in RawKeys, rawValue \in RawValues :
        ItemSetOf(c, key, rawValue)

ResumeSet(c) ==
    /\ Resume(c, "set")
    /\ UNCHANGED seen
    /\ IF ret[c].kind = "error"
       THEN Throw(c, Error(ret[c].message))
       ELSE Push(c, <<KeyValue(cur[c].key, cur[c].parsed)>>)

(* case 'get' *)
ItemGetOf(c, key) ==
    /\ Begin(c)
    /\ IF KeyMissing(key)
       THEN seen' = Forget(c) /\ KeyRequired(c)
       ELSE LET trimmedKey == StringTrim(key) IN
            /\ seen' = IF seen[c].phase = "done" /\ seen[c].key = trimmedKey
                       THEN [seen EXCEPT ![c].phase = "get"]
                       ELSE Forget(c)
            /\ Await(c, "get", [NoLocals EXCEPT !.key = trimmedKey])
            /\ get(c, trimmedKey, heap)

ItemGet(c) ==
    \E key \in RawKeys :
        ItemGetOf(c, key)

ResumeGet(c) ==
    /\ Resume(c, "get")
    /\ seen' = Forget(c)
    /\ Push(c, <<KeyValue(cur[c].key, ret[c].value)>>)

(* case 'getWithDefault' *)
ItemGetWithDefaultOf(c, key, rawDefaultValue) ==
    /\ Begin(c)
    /\ IF KeyMissing(key)
       THEN seen' = Forget(c) /\ KeyRequired(c)
       ELSE LET trimmedKey == StringTrim(key)
                default == parsedDefaultValue(heap, rawDefaultValue)
            IN  IF ~default.ok
                THEN seen' = Forget(c) /\ Throw(c, default.error)
                ELSE /\ seen' = [seen EXCEPT ![c] =
                                    [phase |-> "gwd", key |-> trimmedKey,
                                     dflt |-> Content(default.heap, default.value),
                                     size |-> Len(store), observed |-> "",
                                     solo |-> TRUE]]
                     /\ Await(c, "gwdGet", [NoLocals EXCEPT !.key = trimmedKey,
                                                           !.parsed = default.value])
                     /\ get(c, trimmedKey, default.heap)

ItemGetWithDefault(c) ==
    \E key \in RawKeys, rawDefaultValue \in RawValues :
        ItemGetWithDefaultOf(c, key, rawDefaultValue)

ResumeGwdGet(c) ==
    /\ Resume(c, "gwdGet")
    /\ LET value == ret[c].value IN
       IF IsNull(value)
       THEN /\ seen' = [seen EXCEPT ![c].observed = Observed(value)]
            /\ Await(c, "gwdSet", cur[c])
            /\ set(c, cur[c].key, cur[c].parsed, heap)
       ELSE /\ seen' = [seen EXCEPT ![c].observed = Observed(value),
                                    ![c].phase = "done"]
            /\ Push(c, <<KeyValue(cur[c].key, value)>>)

(* ResumeGwdSet, were value left as the null the get returned. *)
ResumeGwdSetKeepsNull(c) ==
    /\ Resume(c, "gwdSet")
    /\ IF ret[c].kind = "error"
       THEN seen' = Forget(c) /\ Throw(c, Error(ret[c].message))
       ELSE /\ seen' = [seen EXCEPT ![c].phase = "done"]
            /\ Push(c, <<KeyValue(cur[c].key, Null)>>)

ResumeGwdSet(c) ==
    /\ Resume(c, "gwdSet")
    /\ IF ret[c].kind = "error"
       THEN seen' = Forget(c) /\ Throw(c, Error(ret[c].message))
       ELSE /\ seen' = [seen EXCEPT ![c].phase = "done"]
            /\ Push(c, <<KeyValue(cur[c].key, cur[c].parsed)>>)

(* case 'delete' *)
ItemDeleteOf(c, key) ==
    /\ Begin(c)
    /\ seen' = Forget(c)
    /\ IF KeyMissing(key)
       THEN KeyRequired(c)
       ELSE LET trimmedKey == StringTrim(key) IN
            /\ Await(c, "delete", [NoLocals EXCEPT !.key = trimmedKey])
            /\ delete(c, trimmedKey)

ItemDelete(c) ==
    \E key \in RawKeys :
        ItemDeleteOf(c, key)

ResumeDelete(c) ==
    /\ Resume(c, "delete")
    /\ UNCHANGED seen
    /\ Push(c, <<KeySuccess(cur[c].key)>>)

(* default: any other action *)
ItemUnsupportedOf(c, action, key) ==
    /\ Begin(c)
    /\ seen' = Forget(c)
    /\ IF KeyMissing(key)
       THEN KeyRequired(c)
       ELSE Throw(c, NodeOperationError("Unsupported action '" \o action \o "'",
                                        idx[c]))

ItemUnsupported(c) ==
    \E action \in OtherActions, key \in RawKeys :
        ItemUnsupportedOf(c, action, key)

(* i = items.length: return [returnData] *)
Return(c) ==
    /\ apc[c] = "loop" /\ pc[c] = "idle"
    /\ apc' = [apc EXCEPT ![c] = "returned"]
    /\ UNCHANGED <<store, mutex, queue, heap, pc, op, ret, val, nops, passed, written,
                   idx, cur, returnData, error, started, engine, seen, listed>>

AdapterInit ==
    /\ \E ks \in {<<>>, <<KeyA, KeyB>>} :
           LET before == Populated(ks, Shape(Num(1), Absent)) IN
           store = before.store /\ heap = before.heap
    /\ Idle
    /\ apc = [c \in Callers |-> "loop"]
    /\ engine \in Engines

AdapterNext ==
    \E c \in Callers :
        \/ ItemKeys(c)
        \/ ResumeKeys(c)
        \/ ResumeKeysGet(c)
        \/ ItemSet(c)
        \/ ResumeSet(c)
        \/ ItemGet(c)
        \/ ResumeGet(c)
        \/ ItemGetWithDefault(c)
        \/ ResumeGwdGet(c)
        \/ ResumeGwdSet(c)
        \/ ItemDelete(c)
        \/ ResumeDelete(c)
        \/ ItemUnsupported(c)
        \/ Return(c)
        \/ callback(c)
        \/ release(c)

AdapterSpec == AdapterInit /\ [][AdapterNext]_vars

(* Executions whose input items all have an action other than 'keys'. *)
BatchNext ==
    \E c \in Callers :
        \/ ItemSet(c)
        \/ ResumeSet(c)
        \/ ItemGet(c)
        \/ ResumeGet(c)
        \/ ItemGetWithDefault(c)
        \/ ResumeGwdGet(c)
        \/ ResumeGwdSet(c)
        \/ ItemDelete(c)
        \/ ResumeDelete(c)
        \/ ItemUnsupported(c)
        \/ Return(c)
        \/ callback(c)
        \/ release(c)

BatchSpec == AdapterInit /\ [][BatchNext]_vars

----------------------------------------------------------------------------
(* Properties of the Store.                                                *)

Inside(c) == pc[c] \in {"cs", "rel"}

RanCallback(c, name) == pc[c] = "cs" /\ op[c].name = name /\ pc'[c] = "rel"

(* A step of a caller's own code that writes to an object. *)
Assigned == pc' = pc /\ store' = store /\ heap' # heap

StoredProps(h, i) == OwnProps(h, store[i].value)
StoredContent(h, i) == Content(h, store[i].value)

(* C1: at most one Store operation is inside its critical section, and a    *)
(* step that writes the map or hands a caller what it read from the map is *)
(* the callback of the one operation that holds the mutex.                 *)
C1_AtMostOneInside == \A c, d \in Callers : Inside(c) /\ Inside(d) => c = d

C1_AccessInside ==
    (\/ store' # store
     \/ \E c \in Callers :
            ret'[c] # ret[c] /\ ret'[c].kind \in {"void", "value", "size", "keys"})
    => \E c \in Callers :
           /\ pc[c] = "cs" /\ pc'[c] = "rel" /\ mutex
           /\ \A d \in Callers \ {c} :
                  ~Inside(d) /\ pc'[d] = pc[d] /\ ret'[d] = ret[d]

C1_MutualExclusion == [](C1_AtMostOneInside) /\ [][C1_AccessInside]_vars

(* C1's case: one caller is inside while another waits for the mutex. *)
C1_Witness ==
    \E c, d \in Callers : c # d /\ pc[c] = "cs" /\ pc[d] = "wait" /\ mutex

(* C2, as claimed: what a set callback stores under k has the properties   *)
(* its value had when set was called, and a caller's later write to a      *)
(* property never changes the properties of a stored object.               *)
C2_StoredAsPassed ==
    [][/\ \A c \in Callers :
              RanCallback(c, "set")
              => OwnProps(heap', MapGet(store', op[c].key)) = passed[c]
       /\ Assigned
          => \A i \in 1..Len(store) : StoredProps(heap', i) = StoredProps(heap, i)
      ]_vars

(* C3: the object get returns is a new one, with the properties of the     *)
(* stored one; no caller's result is the stored object or another caller's *)
(* result; and a caller's write to a property never changes the properties *)
(* of a stored object.                                                     *)
C3_ResultsApart ==
    /\ \A c \in Callers : RefsOf({ret[c].value}) \cap StoreRefs(store) = {}
    /\ \A c, d \in Callers :
           c # d => RefsOf({ret[c].value}) \cap RefsOf({ret[d].value}) = {}

C3_GetCopies ==
    /\ \A c \in Callers :
           RanCallback(c, "get") /\ MapHas(store, op[c].key)
           => /\ IsObj(ret'[c].value)
              /\ ret'[c].value.ref \notin Roots
              /\ OwnProps(heap', ret'[c].value)
                     = OwnProps(heap, MapGet(store, op[c].key))
    /\ Assigned
       => \A i \in 1..Len(store) : StoredProps(heap', i) = StoredProps(heap, i)

C3_GetIsolated == [](C3_ResultsApart) /\ [][C3_GetCopies]_vars

(* C3's case: a caller has written count = 2 to the object get returned,   *)
(* and the entry, set once before, still has count = 1.                    *)
C3_Witness ==
    \E c \in Callers :
        /\ pc[c] = "idle" /\ ret[c].kind = "value" /\ IsObj(ret[c].value)
        /\ heap[ret[c].value.ref].props.count = Num(2)
        /\ written[KeyA].n = 1 /\ written[KeyA].by = 0
        /\ OwnProps(heap, MapGet(store, KeyA)).count = Num(1)

(* C4, as claimed: a caller's write to an object it holds, at any nesting   *)
(* depth, never changes the content of a stored value, which is what a     *)
(* later get returns.                                                      *)
C4_NothingShared ==
    [][Assigned
       => \A i \in 1..Len(store) : StoredContent(heap', i) = StoredContent(heap, i)
      ]_vars

(* A step in which c calls the Store and the call settles or goes on to    *)
(* wait for the mutex.                                                     *)
Called(c) ==
    nops' # nops /\ pc[c] = "idle" /\ (ret'[c] # ret[c] \/ pc'[c] # pc[c])

(* C5: set with null, an array or a primitive fails with the message and   *)
(* leaves every entry as it was.                                           *)
C5_InvalidSetRejected ==
    [][\A c \in {d \in Callers : Called(d)} :
           (\E k \in StoreKeys, v \in NonObjects : set(c, k, v, heap))
           => /\ ret'[c] = Thrown(InvalidValueMessage)
              /\ pc'[c] = "idle"
              /\ store' = store
              /\ \A i \in 1..Len(store) :
                     StoredContent(heap', i) = StoredContent(heap, i)
      ]_vars

(* C5's case: a set was rejected while the Store held entries. *)
C5_Witness ==
    \E c \in Callers :
        ret[c] = Thrown(InvalidValueMessage) /\ pc[c] = "idle" /\ Len(store) = 2

(* C6: every value in the Store is an object: not null, not an array, not  *)
(* a primitive.                                                            *)
C6_OnlyObjects ==
    \A i \in 1..Len(store) :
        store[i].value.t = "object" /\ IsLive(heap, store[i].value.ref)

(* C6's case: a set callback has just written an entry. *)
C6_Witness ==
    \E c \in Callers :
        pc[c] = "rel" /\ op[c].name = "set" /\ MapHas(store, op[c].key)

(* C7: get(k) returns the content of the value the last set(k, v) was      *)
(* given, when no delete(k) or clear() ran since; a second set overwrites. *)
C7_RoundTrip ==
    [][\A c \in Callers :
           RanCallback(c, "get") /\ written[op[c].key].n > 0
           => /\ IsObj(ret'[c].value)
              /\ Content(heap', ret'[c].value) = written[op[c].key].content
      ]_vars

(* C7's case: a get has returned the value of the second set on its key. *)
C7_Witness ==
    \E c \in Callers :
        /\ pc[c] = "rel" /\ op[c].name = "get" /\ written[op[c].key].n = 2
        /\ IsObj(ret[c].value)
        /\ Content(heap, ret[c].value) = written[op[c].key].content
        /\ Content(heap, ret[c].value).count = Num(2)

----------------------------------------------------------------------------
(* Properties of getWithDefault.                                           *)

Last(records) == records[Len(records)]

(* A step of c's getWithDefault item, and whether the key held a value     *)
(* when its internal get read it.                                          *)
GwdStep(c) == seen[c].phase = "gwd" /\ (pc'[c] # pc[c] \/ apc'[c] # apc[c])

GwdFound(c) ==
    /\ apc[c] = "gwdGet"
    /\ IF pc[c] \in {"wait", "cs"}
       THEN MapHas(store, seen[c].key)
       ELSE ret[c].value # Null

(* C8: getWithDefault on a key that holds a value returns the content of   *)
(* that value and issues no set: every step of the item leaves the map and *)
(* the content of every entry as they are, and run alone it ends with the  *)
(* size it began with.                                                     *)
C8_Steps ==
    \A c \in Callers :
        GwdStep(c) /\ GwdFound(c)
        => /\ store' = store
           /\ \A i \in 1..Len(store) : StoredContent(heap', i) = StoredContent(heap, i)
           /\ RanCallback(c, "get")
              => /\ IsObj(ret'[c].value)
                 /\ Content(heap', ret'[c].value)
                        = Content(heap, MapGet(store, seen[c].key))
           /\ pc[c] = "idle"
              => /\ apc'[c] = "loop" /\ pc'[c] = "idle"
                 /\ returnData'[c]
                        = Append(returnData[c], KeyValue(seen[c].key, ret[c].value))

C8_Alone ==
    \A c \in Callers :
        seen[c].phase = "done" /\ seen[c].solo /\ seen[c].observed = "present"
        => /\ Len(store) = seen[c].size
           /\ MapHas(store, seen[c].key)
           /\ Content(heap, Last(returnData[c]).value)
                  = Content(heap, MapGet(store, seen[c].key))

C8_PresentKept == [](C8_Alone) /\ [][C8_Steps]_vars

(* C8's case: a getWithDefault on a key of a Store of two entries has      *)
(* returned the stored value, which differs from its default.              *)
C8_Witness ==
    \E c \in Callers :
        /\ seen[c].phase = "done" /\ seen[c].observed = "present"
        /\ Len(store) = 2
        /\ Content(heap, Last(returnData[c]).value) # seen[c].dflt
        /\ Content(heap, Last(returnData[c]).value)
               = Content(heap, MapGet(store, seen[c].key))

(* C9: getWithDefault on an absent key, with no other caller's operation   *)
(* in between, returns the default and leaves it stored, the size one      *)
(* larger; the get that follows returns a value equal to the default.      *)
C9_Stored ==
    \A c \in Callers :
        seen[c].phase = "done" /\ seen[c].solo /\ seen[c].observed = "absent"
        => /\ Last(returnData[c]).key = seen[c].key
           /\ IsObj(Last(returnData[c]).value)
           /\ Content(heap, Last(returnData[c]).value) = seen[c].dflt
           /\ MapHas(store, seen[c].key)
           /\ Content(heap, MapGet(store, seen[c].key)) = seen[c].dflt
           /\ Len(store) = seen[c].size + 1

C9_ThenGet ==
    \A c \in Callers :
        /\ seen[c].phase = "get" /\ seen[c].solo /\ seen[c].observed = "absent"
        /\ apc[c] = "get" /\ apc'[c] = "loop"
        => /\ IsObj(Last(returnData'[c]).value)
           /\ Last(returnData'[c]).key = seen[c].key
           /\ Content(heap', Last(returnData'[c]).value) = seen[c].dflt

C9_DefaultPersisted == [](C9_Stored) /\ [][C9_ThenGet]_vars

(* C9's case: the get that follows a getWithDefault on an absent key, run   *)
(* alone on an empty Store, has read the default.                          *)
C9_Witness ==
    \E c \in Callers :
        /\ seen[c].phase = "get" /\ seen[c].solo /\ seen[c].observed = "absent"
        /\ seen[c].size = 0 /\ Len(store) = 1
        /\ apc[c] = "get" /\ pc[c] = "rel"
        /\ Content(heap, ret[c].value) = seen[c].dflt

(* Two getWithDefault items on one key have both found it absent and both  *)
(* written their default.                                                  *)
RaceDone(c, d) ==
    /\ c # d
    /\ seen[c].phase = "done" /\ seen[d].phase = "done"
    /\ seen[c].key = seen[d].key
    /\ seen[c].observed = "absent" /\ seen[d].observed = "absent"

(* C10: when two getWithDefault items on one key have both found it absent *)
(* and both set their default, the key holds the default of the one whose  *)
(* set ran last.                                                           *)
C10_LastSetWins ==
    \A c, d \in Callers :
        RaceDone(c, d) /\ written[seen[c].key].by \in {c, d}
        => /\ MapHas(store, seen[c].key)
           /\ Content(heap, MapGet(store, seen[c].key))
                  = seen[written[seen[c].key].by].dflt

(* C10's case: both items found the key absent, both sets ran, with        *)
(* defaults that differ.                                                   *)
C10_Witness ==
    \E c, d \in Callers :
        /\ RaceDone(c, d)
        /\ seen[c].dflt # seen[d].dflt
        /\ written[seen[c].key].n = 2
        /\ written[seen[c].key].by = d
        /\ Content(heap, MapGet(store, seen[c].key)) = seen[d].dflt

----------------------------------------------------------------------------
(* Properties of concurrent calls.                                         *)

(* Every call has been awaited. *)
AllSettled == \A c \in Callers : pc[c] = "idle"

(* The keys set by callers since the Store was last empty of them. *)
SetOnce == {k \in StoreKeys : written[k].n = 1 /\ written[k].by \in Callers}

(* C11: when the Store was empty and the calls since were sets on distinct *)
(* keys, all awaited, the size is the number of those keys and each key    *)
(* holds the content its set was given; a set with an object never fails.  *)
C11_AllStored ==
    AllSettled /\ (\A k \in StoreKeys \ SetOnce : written[k] = NotWritten)
    => /\ Len(store) = Cardinality(SetOnce)
       /\ \A k \in SetOnce :
              /\ MapHas(store, k)
              /\ Content(heap, MapGet(store, k)) = written[k].content

C11_SetSucceeds == \A c \in Callers : RanCallback(c, "set") => ret'[c] = Void

C11_DistinctKeys == [](C11_AllStored) /\ [][C11_SetSucceeds]_vars

(* C11's case: two callers have each set one key of an empty Store, with   *)
(* values that differ, and both calls are settled.                         *)
C11_Witness ==
    /\ AllSettled /\ nops = 2
    /\ written[KeyA].n = 1 /\ written[KeyB].n = 1
    /\ written[KeyA].by \in Callers /\ written[KeyB].by \in Callers
    /\ written[KeyA].by # written[KeyB].by
    /\ written[KeyA].content # written[KeyB].content
    /\ Len(store) = 2
    /\ \A c \in Callers : ret[c] = Void

(* C12: a key has one entry, and once sets on it have run the entry holds  *)
(* the content the last of them was given, whole: none of its properties   *)
(* comes from another set.                                                 *)
C12_OneWholeValue ==
    /\ \A i, j \in 1..Len(store) : store[i].key = store[j].key => i = j
    /\ \A k \in StoreKeys :
           written[k].n > 0
           => /\ MapHas(store, k)
              /\ Content(heap, MapGet(store, k)) = written[k].content

(* C12's case: two sets on one key are in flight at once, with values that *)
(* differ: the callback of one has stored its value and the other waits    *)
(* for the mutex.                                                          *)
C12_Witness ==
    \E c, d \in Callers :
        /\ c # d
        /\ pc[c] = "rel" /\ op[c].name = "set"
        /\ pc[d] = "wait" /\ op[d].name = "set" /\ op[d].key = op[c].key
        /\ written[op[c].key].by = c
        /\ Content(heap, MapGet(store, op[c].key)) = Content(heap, op[c].value)
        /\ Content(heap, op[d].value) # Content(heap, op[c].value)

(* The sequential map the calls run so far amount to, taken one at a time  *)
(* in the order of their callbacks: the keys that have a value, and the    *)
(* content of each.                                                        *)
Present == {k \in StoreKeys : written[k].n > 0}

Range(s) == {s[i] : i \in 1..Len(s)}

Selects(p, k) ==
    p = NoPattern \/ StringTrim(p) = <<>> \/ ~RegExpCompiles(p) \/ RegExpTest(p, k)

(* The Store holds what the sequential map holds. *)
C13_SameContent ==
    /\ Range(MapKeys(store)) = Present
    /\ Len(store) = Cardinality(Present)
    /\ \A k \in Present : Content(heap, MapGet(store, k)) = written[k].content

(* Each call takes effect in one step, its callback, between its invocation *)
(* and its return, and settles with what the sequential map gives.         *)
C13_SameResults ==
    /\ \A c \in Callers :
           pc[c] = "cs" /\ pc'[c] = "rel"
           => CASE op[c].name = "get" ->
                       IF op[c].key \in Present
                       THEN /\ IsObj(ret'[c].value)
                            /\ Content(heap', ret'[c].value) = written[op[c].key].content
                       ELSE ret'[c] = Returned(Null)
                [] op[c].name = "size" -> ret'[c] = Counted(Cardinality(Present))
                [] op[c].name = "keys" ->
                       /\ ret'[c].kind = "keys"
                       /\ Range(ret'[c].keys)
                              = {k \in Present : Selects(op[c].pattern, k)}
                       /\ Len(ret'[c].keys) = Cardinality(Range(ret'[c].keys))
                [] OTHER -> ret'[c] = Void
    /\ store' # store => \E c \in Callers : pc[c] = "cs" /\ pc'[c] = "rel"
    /\ \A c \in Callers :
           pc[c] = "rel" /\ pc'[c] = "idle" => ret'[c] = ret[c] /\ store' = store

(* C13: the results of concurrent calls and the content of the Store are   *)
(* those of the same calls run one at a time, in the order in which their  *)
(* callbacks ran.                                                          *)
C13_Sequential == [](C13_SameContent) /\ [][C13_SameResults]_vars

(* C13's case: a get and a set on one key are in flight at once; the get   *)
(* ran first and has read the value the key had, while the set waits.      *)
C13_Witness ==
    \E c, d \in Callers :
        /\ c # d
        /\ pc[c] = "rel" /\ op[c].name = "get"
        /\ pc[d] = "wait" /\ op[d].name = "set" /\ op[d].key = op[c].key
        /\ IsObj(ret[c].value)
        /\ Content(heap, ret[c].value) = written[op[c].key].content
        /\ Content(heap, ret[c].value) # Content(heap, op[d].value)

(* C14: get never fails, and for a key that has no entry (never set, or     *)
(* deleted, or cleared, and not set since) it returns null.                *)
C14_AbsentIsNull ==
    [][\A c \in Callers :
           RanCallback(c, "get")
           => /\ ret'[c].kind = "value"
              /\ store' = store
              /\ written[op[c].key].n = 0 => ret'[c] = Returned(Null)
      ]_vars

(* C14's case: a get has returned null for a key that was deleted, while   *)
(* the other key kept its entry.                                           *)
C14_Witness ==
    \E c \in Callers :
        /\ pc[c] = "rel" /\ op[c] = OpGet(KeyA) /\ ret[c] = Returned(Null)
        /\ written[KeyA] = NotWritten
        /\ written[KeyB].n = 1 /\ written[KeyB].by = 0
        /\ MapKeys(store) = <<KeyB>>

(* C15: delete never fails; on a key without entry it leaves the map as it *)
(* is, which is the case of a second delete in a row; on a key with an     *)
(* entry it removes that entry and no other.                               *)
C15_DeleteIdempotent ==
    [][\A c \in Callers :
           RanCallback(c, "delete")
           => /\ ret'[c] = Void
              /\ ~MapHas(store', op[c].key)
              /\ IF MapHas(store, op[c].key)
                 THEN Len(store') = Len(store) - 1
                 ELSE store' = store
              /\ \A k \in StoreKeys \ {op[c].key} :
                     /\ MapHas(store', k) = MapHas(store, k)
                     /\ MapGet(store', k) = MapGet(store, k)
                     /\ Content(heap', MapGet(store', k)) = Content(heap, MapGet(store, k))
      ]_vars

(* C15's case: a second delete of the same key has run after the first,    *)
(* and the other entry is still there.                                     *)
C15_Witness ==
    \E c, d \in Callers :
        /\ c # d
        /\ pc[c] = "rel" /\ op[c] = OpDelete(KeyA) /\ ret[c] = Void
        /\ pc[d] = "idle" /\ ret[d] = Void /\ nops = 2
        /\ MapKeys(store) = <<KeyB>>
        /\ written[KeyB].n = 1 /\ written[KeyB].by = 0

(* C16: clear leaves no entry, whether or not there were any, and never    *)
(* fails; size and keys that run when every key has been cleared or        *)
(* deleted give 0 and no key.                                              *)
C16_ClearEmpties ==
    [][\A c \in Callers :
           /\ RanCallback(c, "clear") => store' = <<>> /\ ret'[c] = Void
           /\ RanCallback(c, "size") /\ Present = {} => ret'[c] = Counted(0)
           /\ RanCallback(c, "keys") /\ Present = {} => ret'[c] = Listed(<<>>)
      ]_vars

(* C16's case: a clear has run on a Store in which a get had found an       *)
(* entry, and has left it empty.                                           *)
C16_Witness ==
    \E c, d \in Callers :
        /\ c # d
        /\ pc[c] = "rel" /\ op[c] = OpClear /\ ret[c] = Void
        /\ pc[d] = "idle" /\ ret[d].kind = "value" /\ IsObj(ret[d].value)
        /\ store = <<>>
        /\ \A k \in StoreKeys : written[k] = NotWritten

(* The keys that have an entry in the map. *)
KeysOf(m) == {m[i].key : i \in 1..Len(m)}

(* C17: size returns the number of distinct keys that have an entry, and   *)
(* keys without filter returns that many keys.                             *)
C17_Counts ==
    \A c \in Callers :
        /\ RanCallback(c, "size")
           => /\ ret'[c] = Counted(Cardinality(KeysOf(store)))
              /\ ret'[c].n = Len(MapKeys(store))
        /\ RanCallback(c, "keys") /\ op[c].pattern = NoPattern
           => /\ Len(ret'[c].keys) = Cardinality(KeysOf(store))
              /\ Range(ret'[c].keys) = KeysOf(store)

C17_SizeIsKeyCount ==
    [](Cardinality(KeysOf(store)) = Len(store)) /\ [][C17_Counts]_vars

(* C17's case: after set a, set b and delete a, size has returned 1 while   *)
(* the map holds b alone.                                                  *)
C17_Witness ==
    \E c, d \in Callers :
        /\ c # d
        /\ pc[c] = "rel" /\ op[c] = OpSize /\ ret[c] = Counted(1)
        /\ pc[d] = "idle" /\ ret[d] = Void /\ nops = 2
        /\ MapKeys(store) = <<KeyB>>
        /\ written[KeyA] = NotWritten
        /\ written[KeyB].n = 1 /\ written[KeyB].by = 0

(* The filter is omitted, empty or made of whitespace. *)
NoFilter(p) == p = NoPattern \/ \A i \in 1..Len(p) : p[i] = " "

(* C18: keys without filter, or with a filter made of whitespace, returns  *)
(* every key that has an entry, each once, and nothing else.               *)
C18_AllKeys ==
    [][\A c \in Callers :
           RanCallback(c, "keys") /\ NoFilter(op[c].pattern)
           => /\ ret'[c].kind = "keys"
              /\ Range(ret'[c].keys) = Present
              /\ Len(ret'[c].keys) = Cardinality(Present)
      ]_vars

(* C18's case: keys with a filter of one space has returned both keys of   *)
(* the Store.                                                              *)
C18_Witness ==
    \E c \in Callers :
        /\ pc[c] = "rel" /\ op[c] = OpKeys(<<" ">>)
        /\ ret[c] = Listed(<<KeyA, KeyB>>)
        /\ Len(store) = 2

(* What it is for a pattern of literal characters, with or without "^" in  *)
(* front, to match somewhere in a key: the key starts with the literals,   *)
(* or has them somewhere, in the same case.                                *)
OccursIn(q, k) == \E i \in 1..(Len(k) - Len(q) + 1) : SubSeq(k, i, i + Len(q) - 1) = q

Found(p, k) ==
    IF p[1] = "^"
    THEN Len(k) >= Len(p) - 1 /\ SubSeq(k, 1, Len(p) - 1) = Tail(p)
    ELSE OccursIn(p, k)

(* C19: keys with a filter that compiles returns the keys the pattern      *)
(* matches somewhere in, each once, and no other; none when none matches.  *)
C19_Filtered ==
    [][\A c \in Callers :
           /\ RanCallback(c, "keys")
           /\ ~NoFilter(op[c].pattern) /\ RegExpCompiles(op[c].pattern)
           => /\ ret'[c].kind = "keys"
              /\ Range(ret'[c].keys) = {k \in Present : Found(op[c].pattern, k)}
              /\ Len(ret'[c].keys) = Cardinality(Range(ret'[c].keys))
              /\ store' = store
      ]_vars

(* C19's case: the filter b has picked the key Ab, in which it matches at  *)
(* the end, and left out the key a.                                        *)
C19_Witness ==
    \E c \in Callers :
        /\ pc[c] = "rel" /\ op[c] = OpKeys(<<"b">>)
        /\ ret[c] = Listed(<<KeyB>>)
        /\ MapKeys(store) = <<KeyA, KeyB>>

(* C20: keys with a filter that does not compile does not fail: it returns *)
(* every key that has an entry, as keys without filter does, and leaves    *)
(* the map as it is.                                                       *)
C20_BadPatternAllKeys ==
    [][\A c \in Callers :
           /\ RanCallback(c, "keys")
           /\ ~NoFilter(op[c].pattern) /\ ~RegExpCompiles(op[c].pattern)
           => /\ ret'[c] = keysCallback(store, heap, NoPattern).ret
              /\ Range(ret'[c].keys) = Present
              /\ Len(ret'[c].keys) = Cardinality(Present)
              /\ store' = store
      ]_vars

(* C20's case: keys with the filter [ has returned both keys of the Store. *)
C20_Witness ==
    \E c \in Callers :
        /\ pc[c] = "rel" /\ op[c] = OpKeys(<<"[">>)
        /\ ret[c] = Listed(<<KeyA, KeyB>>)
        /\ MapKeys(store) = <<KeyA, KeyB>>

----------------------------------------------------------------------------
(* C21: enumeration is stable.  A keys callback that runs when no set,     *)
(* delete or clear callback has run since the last keys callback, and is   *)
(* asked the same filter as that one, returns the same keys in the same    *)
(* order; and a keys callback leaves the Map as it is.                     *)
C21_StableEnumeration ==
    [][\A c \in Callers :
           RanCallback(c, "keys")
           => /\ store' = store
              /\ listed.fresh /\ listed.pattern = op[c].pattern
                 => ret'[c] = Listed(listed.keys)
      ]_vars

(* A second keys call with the same filter has returned the two keys the   *)
(* first returned, in the same order.                                      *)
C21_Witness ==
    \E c, d \in Callers :
        /\ c # d /\ nops = 2
        /\ pc[d] = "idle" /\ ret[d] = Listed(<<KeyA, KeyB>>)
        /\ pc[c] = "rel" /\ op[c] = OpKeys(<<"[">>)
        /\ ret[c] = Listed(<<KeyA, KeyB>>)
        /\ listed = [fresh |-> TRUE, pattern |-> <<"[">>, keys |-> <<KeyA, KeyB>>]

----------------------------------------------------------------------------
(* C22: under fair scheduling every call of a Store method settles: a     *)
(* call that waits for the mutex or holds it is followed by that caller    *)
(* being idle again with the call's outcome.  The mutex is locked exactly  *)
(* while some call is in its critical section, so it is never left locked  *)
(* with no call running.                                                   *)
C22_LockedWhileInside == mutex <=> \E c \in Callers : Inside(c)

C22_Completes ==
    /\ []C22_LockedWhileInside
    /\ \A c \in Callers :
           (pc[c] # "idle") ~> (pc[c] = "idle" /\ ret[c] # Pending)

(* A call waits for the mutex while the other caller's call, which has run *)
(* its callback, still holds it.                                           *)
C22_Witness ==
    \E c, d \in Callers :
        /\ pc[c] = "wait" /\ ret[c] = Pending
        /\ pc[d] = "rel" /\ ret[d] # Pending
        /\ mutex /\ nops = 2

----------------------------------------------------------------------------
(* Properties of the node.                                                 *)

(* The keys that are empty or hold nothing but whitespace. *)
BlankKeys == {key \in RawKeys : \A i \in 1..Len(key) : key[i] = " "}

(* Caller c's execution takes an item with an action that needs a key. *)
KeyedItemOf(c, key) ==
    \/ ItemGetOf(c, key)
    \/ ItemDeleteOf(c, key)
    \/ \E raw \in RawValues :
           ItemSetOf(c, key, raw) \/ ItemGetWithDefaultOf(c, key, raw)

(* The entries of the Store and their content are what they were. *)
StoreUntouched ==
    /\ store' = store
    /\ \A i \in 1..Len(store) : StoredContent(heap', i) = StoredContent(heap, i)

(* C23: a set, get, getWithDefault or delete item whose key is empty or    *)
(* only whitespace makes execute throw 'Key is required and cannot be      *)
(* empty' in the step that takes the item: no Store method is called (no   *)
(* call is in flight or settled for the caller, the mutex is as it was)    *)
(* and the Store is unchanged.                                             *)
C23_BlankKeyRefused ==
    [][\A c \in Callers :
           (\E key \in BlankKeys : KeyedItemOf(c, key))
           => /\ apc'[c] = "threw"
              /\ error'[c].message = "Key is required and cannot be empty"
              /\ pc' = pc /\ op' = op /\ ret' = ret
              /\ mutex' = mutex /\ queue' = queue
              /\ written' = written
              /\ StoreUntouched
      ]_vars

(* The second item of an execution, with a blank key, has made it throw,   *)
(* while the Store holds what its first item set.                          *)
C23_Witness ==
    \E c \in Callers :
        /\ apc[c] = "threw" /\ idx[c] = 1
        /\ error[c].message = "Key is required and cannot be empty"
        /\ pc[c] = "idle" /\ op[c] = NoOp
        /\ \E k \in StoreKeys : written[k].by = c /\ MapHas(store, k)

(* A key with no whitespace at either end, and not empty. *)
Clean(k) == k # <<>> /\ k[1] # " " /\ k[Len(k)] # " "

(* key is k with whitespace around it. *)
Surrounds(key, k) ==
    \E i \in 1..Len(key) :
        /\ i + Len(k) - 1 <= Len(key)
        /\ SubSeq(key, i, i + Len(k) - 1) = k
        /\ \A j \in (1..(i - 1)) \cup ((i + Len(k))..Len(key)) : key[j] = " "

(* C24: the node calls the Store with the trimmed key and reports the      *)
(* trimmed key.  Every key of the Store and every key in an output record  *)
(* is non-empty with no whitespace at either end; an item with a key that  *)
(* is not blank calls the Store with that key less the whitespace around   *)
(* it; and a get of a key that has been set returns the content last set   *)
(* under it, so what was set as ' a ' is read as 'a'.                      *)
C24_KeysClean ==
    /\ \A i \in 1..Len(store) : Clean(store[i].key)
    /\ \A c \in Callers :
           /\ \A i \in 1..Len(returnData[c]) : Clean(returnData[c][i].key)
           /\ op[c].name \in {"set", "get", "delete"} => Clean(op[c].key)

C24_TrimmedKey ==
    /\ []C24_KeysClean
    /\ [][\A c \in Callers :
              /\ \A key \in RawKeys \ BlankKeys :
                     KeyedItemOf(c, key) /\ apc'[c] # "threw"
                     => Clean(op'[c].key) /\ Surrounds(key, op'[c].key)
              /\ RanCallback(c, "get") /\ written[op[c].key] # NotWritten
                 => Content(heap', ret'[c].value) = written[op[c].key].content
              /\ apc[c] = "get" /\ apc'[c] = "loop"
                 => Last(returnData'[c]) = KeyValue(cur[c].key, ret[c].value)
        ]_vars

(* A get item with key 'a' has read what the other execution's set item    *)
(* with key ' a ' stored.                                                  *)
C24_Witness ==
    \E c, d \in Callers :
        /\ c # d
        /\ written[KeyA].by = d /\ Len(returnData[d]) = 1
        /\ returnData[d][1].key = KeyA
        /\ apc[c] = "get" /\ pc[c] = "rel" /\ op[c] = OpGet(KeyA)
        /\ Content(heap, ret[c].value) = written[KeyA].content
        /\ Content(heap, ret[c].value) = Content(heap, returnData[d][1].value)

(* Caller c's execution has failed. *)
Failing(c) == error[c] # NoError

(* C25: the first failing item fails the whole batch.  Once an item has    *)
(* failed, execute has thrown and returns no record; it takes no further   *)
(* item and calls the Store no more.  The step in which the item fails     *)
(* leaves the Store as the items before it left it, and every entry of the *)
(* Store is an object with its content, so nothing is half written.        *)
C25_Thrown ==
    \A c \in Callers :
        Failing(c) => /\ apc[c] = "threw"
                      /\ returnData[c] = <<>>
                      /\ pc[c] = "idle" /\ op[c] = NoOp

C25_WellFormed ==
    \A i \in 1..Len(store) :
        /\ IsObj(store[i].value) /\ IsLive(heap, store[i].value.ref)
        /\ \A j \in 1..Len(store) : store[i].key = store[j].key => i = j

C25_FailsBatch ==
    /\ [](C25_Thrown /\ C25_WellFormed)
    /\ [][\A c \in Callers :
              /\ Failing(c)
                 => /\ apc'[c] = apc[c] /\ idx'[c] = idx[c]
                    /\ error'[c] = error[c] /\ returnData'[c] = returnData[c]
                    /\ pc'[c] = pc[c] /\ op'[c] = op[c]
              /\ ~Failing(c) /\ error'[c] # NoError
                 => /\ StoreUntouched /\ written' = written
                    /\ idx'[c] = idx[c]
        ]_vars

(* The second item of an execution has failed on its value: execute has    *)
(* thrown, its record of the first item is gone, and the Store holds what  *)
(* the first item set.                                                     *)
C25_Witness ==
    \E c \in Callers :
        /\ apc[c] = "threw" /\ idx[c] = 1 /\ returnData[c] = <<>>
        /\ error[c].message # "Key is required and cannot be empty"
        /\ \E k \in StoreKeys :
               /\ written[k].by = c /\ MapHas(store, k)
               /\ Content(heap, MapGet(store, k)) = written[k].content

(* C26: every failure execute raises carries the index of the item it was  *)
(* working on.  The error is a NodeOperationError whose itemIndex is the    *)
(* loop variable i of the execution, which counts the items done before;   *)
(* it is set in the step that fails, whether the error is thrown as it is  *)
(* (blank key, unsupported action) or wrapped by the catch (invalid JSON,  *)
(* a value that is no object).                                             *)
C26_IndexCarried ==
    \A c \in Callers :
        Failing(c) => /\ error[c].name = "NodeOperationError"
                      /\ error[c].itemIndex = idx[c]
                      /\ error[c].itemIndex \in 0..(MaxItems - 1)

C26_ItemIndex ==
    /\ []C26_IndexCarried
    /\ [][\A c \in Callers :
              ~Failing(c) /\ error'[c] # NoError
              => /\ error'[c].itemIndex = idx[c]
                 /\ apc[c] = "loop" => started' = started + 1
        ]_vars

(* The second item of an execution had JSON text that does not parse: the  *)
(* wrapped error carries index 1.                                          *)
C26_Witness ==
    \E c \in Callers :
        /\ apc[c] = "threw" /\ idx[c] = 1
        /\ error[c] = NodeOperationError(
               "Error executing Memory State operation: Invalid JSON value: "
               \o "Expected property name or '}' in JSON at position 1 (line 1 column 2)"
               \o ". Value must be a JSON object (not array, not primitive, not null)",
               1)

(* C27: a keys item with getValues emits one record per key the            *)
(* enumeration returned, in that order, each with the key and the object   *)
(* stored under it, never null, whatever other callers do between the      *)
(* enumeration and the get of each key.                                    *)
C27_ValuesListed ==
    [][\A c \in Callers :
           apc[c] = "keysGet" /\ apc'[c] = "loop"
           => LET ks == cur[c].keys
                  out == returnData'[c]
                  base == Len(out) - Len(ks)
              IN  /\ base = Len(returnData[c]) - (Len(ks) - 1)
                  /\ \A j \in 1..Len(ks) :
                         /\ out[base + j].key = ks[j]
                         /\ out[base + j].has = {"key", "value"}
                         /\ IsObj(out[base + j].value)
      ]_vars

(* C28: a delete item with a key that is not blank always succeeds.  It    *)
(* calls delete with the trimmed key; the call settles without error,      *)
(* whether or not the key had an entry, and leaves the key without entry;  *)
(* the item then pushes { key: trimmed key, success: true } and the loop   *)
(* goes on; and a get of a key with no entry (none set since the delete)   *)
(* returns null.                                                           *)
C28_DeleteSettles ==
    \A c \in Callers :
        apc[c] = "delete"
        => /\ ~Failing(c) /\ Clean(cur[c].key)
           /\ pc[c] # "idle" => op[c] = OpDelete(cur[c].key)
           /\ pc[c] \in {"rel", "idle"} => ret[c] = Void

C28_DeleteSucceeds ==
    /\ []C28_DeleteSettles
    /\ [][\A c \in Callers :
              /\ \A key \in RawKeys \ BlankKeys :
                     ItemDeleteOf(c, key)
                     => /\ apc'[c] = "delete"
                        /\ Surrounds(key, cur'[c].key)
                        /\ op'[c] = OpDelete(cur'[c].key)
              /\ apc[c] = "delete" /\ RanCallback(c, "delete")
                 => /\ ~MapHas(store', cur[c].key)
                    /\ written'[cur[c].key] = NotWritten
              /\ apc[c] = "delete" /\ apc'[c] # apc[c]
                 => /\ apc'[c] = "loop" /\ idx'[c] = idx[c] + 1
                    /\ returnData'[c]
                           = Append(returnData[c], KeySuccess(cur[c].key))
                    /\ KeySuccess(cur[c].key).success
                    /\ KeySuccess(cur[c].key).has = {"key", "success"}
              /\ RanCallback(c, "get") /\ written[op[c].key] = NotWritten
                 => ret'[c] = Returned(Null)
        ]_vars

(* An execution has deleted ' a ', which had no entry, and pushed its      *)
(* record; its next item, a get of the same key, has read null.            *)
C28_Witness ==
    \E c \in Callers :
        /\ idx[c] = 1 /\ returnData[c] = <<KeySuccess(KeyA)>>
        /\ apc[c] = "get" /\ pc[c] = "rel" /\ op[c] = OpGet(KeyA)
        /\ ret[c] = Returned(Null)
        /\ store = <<>>

----------------------------------------------------------------------------
(* The entry of key k, in map m on heap h, is what it is in the Store. *)
SameEntry(m, h, k) ==
    /\ MapHas(m, k) = MapHas(store, k)
    /\ Content(h, MapGet(m, k)) = Content(heap, MapGet(store, k))

(* C29: frame conditions.  The callbacks of set(k, v) and delete(k) leave  *)
(* the entry of every other key as it is; set raises the number of entries *)
(* by one when k had none and leaves it when k had one.  The callbacks of  *)
(* get, size and keys leave the whole Store as it is: the same entries in  *)
(* the same order with the same content.  No other step of a call touches  *)
(* the Store.                                                              *)
C29_Frame ==
    [][/\ \A c \in Callers :
              /\ RanCallback(c, "set")
                 => /\ \A k \in StoreKeys \ {op[c].key} : SameEntry(store', heap', k)
                    /\ Len(store') = IF MapHas(store, op[c].key)
                                     THEN Len(store)
                                     ELSE Len(store) + 1
              /\ RanCallback(c, "delete")
                 => \A k \in StoreKeys \ {op[c].key} : SameEntry(store', heap', k)
              /\ RanCallback(c, "get") \/ RanCallback(c, "size")
                    \/ RanCallback(c, "keys")
                 => StoreUntouched
       /\ (\A c \in Callers : pc[c] # "cs") /\ ~Assigned => StoreUntouched
      ]_vars

(* A set on a key without entry has added it, while the other key holds    *)
(* what it held from the start.                                            *)
C29_Witness ==
    \E c \in Callers :
        /\ pc[c] = "rel" /\ op[c].name = "set" /\ op[c].key = KeyA
        /\ written[KeyA].n = 1 /\ written[KeyA].by = c
        /\ written[KeyB] = [n |-> 1, by |-> 0,
                            content |-> Content(heap, MapGet(store, KeyB))]
        /\ MapKeys(store) = <<KeyB, KeyA>>

----------------------------------------------------------------------------
(* Caller c's getWithDefault item, which found its key absent, completes. *)
GwdCompletes(c) == apc[c] = "gwdSet" /\ apc'[c] = "loop"

(* C30, as claimed: a getWithDefault item that found its key absent        *)
(* returns its own default, and what it returns is what the key holds at   *)
(* the moment the item completes.                                          *)
C30_ReturnsStored ==
    [][\A c \in Callers :
           GwdCompletes(c)
           => LET value == Last(returnData'[c]).value IN
              /\ Content(heap', value) = seen[c].dflt
              /\ MapHas(store', seen[c].key)
              /\ Content(heap', MapGet(store', seen[c].key)) = Content(heap', value)
      ]_vars

(* C30, amended: a getWithDefault item that found its key absent returns   *)
(* its own default d, and d is what the key holds once its internal set    *)
(* has run, whatever other callers did to the key between its internal get *)
(* and its internal set; at the moment the item completes the key holds d  *)
(* unless another caller's set, delete or clear has run since that set.    *)
C30_ReturnsOwnDefault ==
    [][\A c \in Callers :
           /\ apc[c] = "gwdSet" /\ RanCallback(c, "set")
              => /\ seen[c].observed = "absent"
                 /\ MapHas(store', seen[c].key)
                 /\ Content(heap', MapGet(store', seen[c].key)) = seen[c].dflt
           /\ GwdCompletes(c)
              => LET record == Last(returnData'[c]) IN
                 /\ record.key = seen[c].key
                 /\ IsObj(record.value)
                 /\ Content(heap', record.value) = seen[c].dflt
                 /\ written[seen[c].key].by = c
                    => /\ MapHas(store', seen[c].key)
                       /\ Content(heap', MapGet(store', seen[c].key))
                              = Content(heap', record.value)
      ]_vars

(* The internal set of a getWithDefault item has stored its default over   *)
(* what another caller set under the key after the item's internal get     *)
(* had found the key absent.                                               *)
C30_Witness ==
    \E c \in Callers :
        /\ apc[c] = "gwdSet" /\ pc[c] = "rel"
        /\ seen[c].observed = "absent" /\ ~seen[c].solo
        /\ written[seen[c].key].n = 2 /\ written[seen[c].key].by = c
        /\ Content(heap, MapGet(store, seen[c].key)) = seen[c].dflt

----------------------------------------------------------------------------
(* The values that are no JSON object: text that does not parse, text of   *)
(* null, of an array and of a number, and null, an array and a number      *)
(* given as such.                                                          *)
InvalidRawValues ==
    {Text(<<"{">>), Text(<<"null">>), Text(<<"[", "1", "]">>), Text(<<"1">>),
     Null, Arr(<<>>), Num(1)}

(* No Store method is called in the step: no call is issued, settled or    *)
(* moved on, and the Store holds what it held.                             *)
NoStoreCall ==
    /\ pc' = pc /\ op' = op /\ ret' = ret
    /\ mutex' = mutex /\ queue' = queue
    /\ written' = written /\ listed' = listed
    /\ StoreUntouched

(* C31: a set item whose value, or a getWithDefault item whose default,    *)
(* is no JSON object fails in the step that takes it, with the error of    *)
(* the validation, before any Store method is called; for getWithDefault   *)
(* also when the key has a value; the Store is unchanged.                  *)
C31_InvalidValueRefused ==
    [][\A c \in Callers :
           /\ (\E key \in RawKeys \ BlankKeys, raw \in InvalidRawValues :
                   ItemSetOf(c, key, raw))
              => /\ apc'[c] = "threw"
                 /\ \E raw \in InvalidRawValues :
                        error'[c] = Caught(parsedValue(heap, raw).error, idx[c])
                 /\ NoStoreCall
           /\ (\E key \in RawKeys \ BlankKeys, raw \in InvalidRawValues :
                   ItemGetWithDefaultOf(c, key, raw))
              => /\ apc'[c] = "threw"
                 /\ \E raw \in InvalidRawValues :
                        error'[c] = Caught(parsedDefaultValue(heap, raw).error, idx[c])
                 /\ NoStoreCall
      ]_vars

(* A getWithDefault item has failed on a default that is null, as the      *)
(* first item of its execution, while both keys hold the values they had   *)
(* from the start.                                                         *)
C31_Witness ==
    \E c \in Callers :
        /\ apc[c] = "threw" /\ idx[c] = 0 /\ ret[c] = Pending
        /\ error[c] = Caught(parsedDefaultValue(heap, Null).error, 0)
        /\ MapKeys(store) = <<KeyA, KeyB>>
        /\ \A k \in StoreKeys : written[k].by = 0 /\ written[k].n = 1

----------------------------------------------------------------------------
(* Caller c's execution is between two items, or over. *)
BetweenItems(c) == apc[c] \in {"loop", "returned", "threw"}

(* C32: in an execution whose items all have an action other than 'keys'   *)
(* and of which none has failed, there is one record per item done, and    *)
(* each item that is done appends its one record, with its key, after      *)
(* those of the items before it.  The items take effect in input order:    *)
(* between two items no Store call of the execution is in flight, an item  *)
(* is done only when its last Store call has settled, and every Store call *)
(* the execution issues belongs to the item it is working on.              *)
C32_OnePerItem ==
    \A c \in Callers :
        /\ ~Failing(c) => Len(returnData[c]) = idx[c]
        /\ BetweenItems(c) => pc[c] = "idle" /\ op[c] = NoOp

C32_InOrder ==
    /\ []C32_OnePerItem
    /\ [][\A c \in Callers :
              /\ ~BetweenItems(c) /\ apc'[c] = "loop"
                 => /\ pc[c] = "idle" /\ ret[c] # Pending
                    /\ idx'[c] = idx[c] + 1
                    /\ Len(returnData'[c]) = Len(returnData[c]) + 1
                    /\ SubSeq(returnData'[c], 1, Len(returnData[c])) = returnData[c]
                    /\ Last(returnData'[c]).key = cur[c].key
              /\ pc[c] = "idle" /\ pc'[c] # "idle"
                 => /\ ~BetweenItems(c)'
                    /\ idx'[c] = idx[c]
                    /\ op'[c].key = cur'[c].key
              /\ BetweenItems(c) /\ ~BetweenItems(c)' => idx'[c] = idx[c]
        ]_vars

(* One execution has worked through two items, set ' a ' and delete ' a ', *)
(* and returned their two records in that order; the key has no entry, as  *)
(* the delete ran after the set.                                           *)
C32_Witness ==
    \E c \in Callers :
        /\ apc[c] = "returned" /\ idx[c] = 2 /\ started = 2
        /\ Len(returnData[c]) = 2
        /\ returnData[c][1].has = {"key", "value"} /\ returnData[c][1].key = KeyA
        /\ IsObj(returnData[c][1].value)
        /\ returnData[c][2] = KeySuccess(KeyA)
        /\ ~MapHas(store, KeyA) /\ written[KeyA] = NotWritten

----------------------------------------------------------------------------
(* C33: a set with a value that is no object throws without acquiring or   *)
(* waiting for the mutex.  The call can be made, and throws, whenever its  *)
(* caller is idle, also while another call holds the mutex; only calls     *)
(* with an object ever wait for the mutex or hold it; and the step that    *)
(* throws leaves the mutex, the Store and every call in flight as they     *)
(* are, so no other caller's call is delayed or reordered.                 *)
C33_OnlyObjectsWait ==
    \A c \in Callers :
        /\ pc[c] # "idle" /\ op[c].name = "set" => IsObj(op[c].value)
        /\ pc[c] = "idle" /\ nops < MaxOps => ENABLED CallSetInvalid(c)

C33_NoLock ==
    /\ []C33_OnlyObjectsWait
    /\ [][\A c \in {d \in Callers : Called(d)} :
              (\E k \in StoreKeys, v \in NonObjects : set(c, k, v, heap))
              => /\ ret'[c] = Thrown(InvalidValueMessage)
                 /\ pc' = pc /\ op' = op /\ mutex' = mutex /\ queue' = queue
                 /\ passed' = passed /\ written' = written /\ listed' = listed
                 /\ \A d \in Callers \ {c} : ret'[d] = ret[d]
                 /\ StoreUntouched
        ]_vars

(* A set with an invalid value has thrown while the other caller's set is  *)
(* in its critical section, its callback not yet run.                      *)
C33_Witness ==
    \E c, d \in Callers :
        /\ c # d /\ nops = 2
        /\ pc[c] = "idle" /\ ret[c] = Thrown(InvalidValueMessage) /\ op[c] = NoOp
        /\ pc[d] = "cs" /\ op[d].name = "set" /\ ret[d] = Pending
        /\ mutex

====
